---- MODULE Spec2Model ----
(***************************************************************************)
(* A model of the AMM pricing core of agent0:                              *)
(*   - the target-rate solver of lpandarb.py                               *)
(*     (calc_reserves_to_hit_target_rate and its local math helpers),      *)
(*   - the Market and the three pricing models of sim.py.                  *)
(*                                                                         *)
(* Numbers.  FixedPoint values (lpandarb.py) and Python floats (sim.py)    *)
(* are both modelled as scaled integers with ONE units per 1.0; products   *)
(* and quotients truncate toward zero.  TLC's integers are 32 bits wide,   *)
(* so ONE is 10^4 where fixedpointmath uses 10^18.  Time stretches and     *)
(* time exponents t are 0, 1/3 and 1/2, so that every power x^e taken has  *)
(* e among 0, 1/3, 1/2, 2/3, 1, 3/2 and 2 and is computed from integer     *)
(* square and cube roots.  Durations are counted in days, not seconds.     *)
(***************************************************************************)
EXTENDS Integers, Sequences, FiniteSets, TLC

ONE == 10000
HALF == ONE \div 2

Abs(a) == IF a < 0 THEN -a ELSE a
Sgn(a) == IF a < 0 THEN -1 ELSE 1
Max(a, b) == IF a >= b THEN a ELSE b
Min(a, b) == IF a <= b THEN a ELSE b

\* a*b/ONE on magnitudes, the larger operand split so no product overflows
MulMag(a, b) ==
  LET hi == Max(a, b)
      lo == Min(a, b)
  IN  (hi \div ONE) * lo + ((hi % ONE) * lo) \div ONE

\* FixedPoint.__mul__ / float *
FMul(a, b) == Sgn(a) * Sgn(b) * MulMag(Abs(a), Abs(b))

\* a*ONE/b on magnitudes, by long division, one decimal digit at a time
DivMag(a, b) ==
  LET d1 == ((a % b) * 10) \div b
      r1 == ((a % b) * 10) % b
      d2 == (r1 * 10) \div b
      r2 == (r1 * 10) % b
      d3 == (r2 * 10) \div b
      r3 == (r2 * 10) % b
      d4 == (r3 * 10) \div b
  IN  (a \div b) * ONE + d1 * 1000 + d2 * 100 + d3 * 10 + d4

\* FixedPoint.__truediv__ / float / ; the caller guards b # 0
FDiv(a, b) == Sgn(a) * Sgn(b) * DivMag(Abs(a), Abs(b))

RECURSIVE ISqrtSearch(_, _, _)
ISqrtSearch(n, lo, hi) ==
  IF lo >= hi THEN lo
  ELSE LET mid == (lo + hi + 1) \div 2
       IN  IF mid * mid <= n THEN ISqrtSearch(n, mid, hi)
           ELSE ISqrtSearch(n, lo, mid - 1)

\* floor(sqrt(n)) for 0 <= n < 2^31
ISqrt(n) == ISqrtSearch(n, 0, Min(n, 46340))

\* sqrt of a scaled value: sqrt(a/ONE)*ONE = sqrt(a*ONE); above 20.0 the last
\* digit is dropped, and above 2000.0 the last two, to stay within 32 bits
FSqrt(a) ==
  IF a < 20 * ONE THEN ISqrt(a * ONE)
  ELSE IF a < 2000 * ONE THEN ISqrt(a * (ONE \div 100)) * 10
  ELSE ISqrt(a) * 100

THIRD == ONE \div 3

RECURSIVE FCbrtSearch(_, _, _)
FCbrtSearch(a, lo, hi) ==
  IF lo >= hi THEN lo
  ELSE LET mid == (lo + hi + 1) \div 2
       IN  IF MulMag(MulMag(mid, mid), mid) <= a THEN FCbrtSearch(a, mid, hi)
           ELSE FCbrtSearch(a, lo, mid - 1)

\* cube root of a scaled value, 0 <= a
FCbrt(a) == FCbrtSearch(a, 0, Min(Max(a, ONE), 20 * ONE))

\* x ** e (FixedPoint) and pow(x, e) (float) for the exponents of the model: time
\* stretches and time exponents t in {0, 1/3, 1/2}, with 1-t and 1/(1-t); the caller
\* guards the base
FPow(x, e) ==
  CASE e = 0 -> ONE
    [] e = THIRD -> FCbrt(x)
    [] e = HALF -> FSqrt(x)
    [] e = ONE - THIRD -> FMul(FCbrt(x), FCbrt(x))
    [] e = ONE -> x
    [] e = FDiv(ONE, ONE - THIRD) -> FMul(x, FSqrt(x))
    [] e = 2 * ONE -> FMul(x, x)

(***************************************************************************)
(* lpandarb.py: constants and the local math helpers                       *)
(***************************************************************************)

\* TOLERANCE = 1e-18 is one unit in the last place of a FixedPoint:
\* float(abs(d)) > TOLERANCE holds exactly when the scaled |d| exceeds 1
TOLERANCE == 1
MAX_ITER == 10

\* FixedPoint(365 * 24 * 60 * 60), in days
YEAR == 365 * ONE

\* FixedPoint ** raises on a negative base
PowOk(x) == x >= 0

calc_bond_reserves_ok(share_reserves, share_adjustment, initial_share_price, target_rate, position_duration, inverted_time_stretch) ==
  PowOk(ONE + FDiv(FMul(target_rate, position_duration), YEAR))

calc_bond_reserves(share_reserves, share_adjustment, initial_share_price, target_rate, position_duration, inverted_time_stretch) ==
  FMul(FMul(initial_share_price, share_reserves - share_adjustment),
       FPow(ONE + FDiv(FMul(target_rate, position_duration), YEAR),
            inverted_time_stretch))

calc_spot_price_local_ok(initial_share_price, share_reserves, share_adjustment, bond_reserves, time_stretch) ==
  /\ bond_reserves # 0
  /\ PowOk(FDiv(FMul(initial_share_price, share_reserves - share_adjustment),
                bond_reserves))

calc_spot_price_local(initial_share_price, share_reserves, share_adjustment, bond_reserves, time_stretch) ==
  LET effective_share_reserves == share_reserves - share_adjustment
  IN  FPow(FDiv(FMul(initial_share_price, effective_share_reserves), bond_reserves),
           time_stretch)

calc_apr_local_ok(share_reserves, share_adjustment, bond_reserves, initial_share_price, position_duration_seconds, time_stretch) ==
  /\ calc_spot_price_local_ok(initial_share_price, share_reserves, share_adjustment,
                              bond_reserves, time_stretch)
  /\ FMul(calc_spot_price_local(initial_share_price, share_reserves, share_adjustment,
                                bond_reserves, time_stretch),
          FDiv(position_duration_seconds, YEAR)) # 0

calc_apr_local(share_reserves, share_adjustment, bond_reserves, initial_share_price, position_duration_seconds, time_stretch) ==
  LET annualized_time == FDiv(position_duration_seconds, YEAR)
      spot_price == calc_spot_price_local(initial_share_price, share_reserves,
                                          share_adjustment, bond_reserves, time_stretch)
  IN  FDiv(ONE - spot_price, FMul(spot_price, annualized_time))

calc_k_local_ok(share_price, initial_share_price, share_reserves, bond_reserves, time_stretch) ==
  /\ initial_share_price # 0
  /\ PowOk(FMul(initial_share_price, share_reserves))
  /\ PowOk(bond_reserves)

calc_k_local(share_price, initial_share_price, share_reserves, bond_reserves, time_stretch) ==
  FMul(FDiv(share_price, initial_share_price),
       FPow(FMul(initial_share_price, share_reserves), ONE - time_stretch))
  + FPow(bond_reserves, ONE - time_stretch)

\* z_val before the final power: (k_t - y_term) / (c / mu)
ZValBase(k_t, y_term, share_price, initial_share_price) ==
  FDiv(k_t - y_term, FDiv(share_price, initial_share_price))

\* the part of both get_shares_* functions up to z_val /= initial_share_price
ZValOk(bond_reserves, share_price, initial_share_price, share_reserves, new_bonds, time_stretch) ==
  /\ calc_k_local_ok(share_price, initial_share_price, share_reserves, bond_reserves,
                     time_stretch)
  /\ PowOk(new_bonds)
  /\ FDiv(share_price, initial_share_price) # 0
  /\ PowOk(ZValBase(calc_k_local(share_price, initial_share_price, share_reserves,
                                 bond_reserves, time_stretch),
                    FPow(new_bonds, ONE - time_stretch),
                    share_price, initial_share_price))
  /\ ONE - time_stretch # 0
  /\ calc_spot_price_local_ok(initial_share_price, share_reserves, 0, bond_reserves,
                              time_stretch)

ZVal(bond_reserves, share_price, initial_share_price, share_reserves, new_bonds, time_stretch) ==
  LET k_t == calc_k_local(share_price, initial_share_price, share_reserves,
                          bond_reserves, time_stretch)
      y_term == FPow(new_bonds, ONE - time_stretch)
      z_val0 == ZValBase(k_t, y_term, share_price, initial_share_price)
      z_val1 == FPow(z_val0, FDiv(ONE, ONE - time_stretch))
  IN  FDiv(z_val1, initial_share_price)

get_shares_in_for_bonds_out_ok(bond_reserves, share_price, initial_share_price, share_reserves, bonds_out, time_stretch, curve_fee, gov_fee) ==
  ZValOk(bond_reserves, share_price, initial_share_price, share_reserves,
         bond_reserves - bonds_out, time_stretch)

\* <<amount_from_user_in_shares, curve_fee_amount_in_shares, gov_fee_amount_in_shares>>
get_shares_in_for_bonds_out(bond_reserves, share_price, initial_share_price, share_reserves, bonds_out, time_stretch, curve_fee, gov_fee) ==
  LET z_val == ZVal(bond_reserves, share_price, initial_share_price, share_reserves,
                    bond_reserves - bonds_out, time_stretch)
      spot_price == calc_spot_price_local(initial_share_price, share_reserves, 0,
                                          bond_reserves, time_stretch)
      amount_in_shares == z_val - share_reserves
      price_discount == ONE - spot_price
      curve_fee_rate == FMul(price_discount, curve_fee)
      curve_fee_amount_in_shares == FMul(amount_in_shares, curve_fee_rate)
      gov_fee_amount_in_shares == FMul(curve_fee_amount_in_shares, gov_fee)
  IN  << amount_in_shares + curve_fee_amount_in_shares,
         curve_fee_amount_in_shares, gov_fee_amount_in_shares >>

get_shares_out_for_bonds_in_ok(bond_reserves, share_price, initial_share_price, share_reserves, bonds_in, time_stretch, curve_fee, gov_fee) ==
  ZValOk(bond_reserves, share_price, initial_share_price, share_reserves,
         bond_reserves + bonds_in, time_stretch)

\* <<amount_to_user_in_shares, curve_fee_amount_in_shares, gov_fee_amount_in_shares>>
get_shares_out_for_bonds_in(bond_reserves, share_price, initial_share_price, share_reserves, bonds_in, time_stretch, curve_fee, gov_fee) ==
  LET z_val == ZVal(bond_reserves, share_price, initial_share_price, share_reserves,
                    bond_reserves + bonds_in, time_stretch)
      spot_price == calc_spot_price_local(initial_share_price, share_reserves, 0,
                                          bond_reserves, time_stretch)
      price_discount == ONE - spot_price
      amount_in_shares == Max(0, share_reserves - z_val)
      curve_fee_rate == FMul(price_discount, curve_fee)
      curve_fee_amount_in_shares == FMul(amount_in_shares, curve_fee_rate)
      gov_fee_amount_in_shares == FMul(curve_fee_amount_in_shares, gov_fee)
  IN  << amount_in_shares - curve_fee_amount_in_shares,
         curve_fee_amount_in_shares, gov_fee_amount_in_shares >>

(***************************************************************************)
(* sim.py: float arithmetic of the pricing models.  Floats are modelled by *)
(* the same scaled integers; time exponents t are 1/2, 1/3 and 0, so that  *)
(* the powers 1-t and 1/(1-t) are roots, squares and x*sqrt(x).  A float   *)
(* power of a negative base with a fractional exponent is a complex        *)
(* number; a call's status tells a real result from a complex one and from *)
(* a ZeroDivisionError.                                                    *)
(***************************************************************************)

\* pow of a negative float to a fractional power is complex
PowComplex(x, e) == x < 0 /\ e % ONE # 0

\* the 4-tuple (without_fee_or_slippage, with_fee, without_fee, fee) of a pricing call
Tuple(wfos, with, without, f) == [status |-> "real", without_fee_or_slippage |-> wfos, with_fee |-> with, without_fee |-> without, fee |-> f]

\* a 4-tuple with a complex member, and a call that raised ZeroDivisionError
ComplexTuple == [status |-> "complex", without_fee_or_slippage |-> 0, with_fee |-> 0, without_fee |-> 0, fee |-> 0]

Raised == [status |-> "raises", without_fee_or_slippage |-> 0, with_fee |-> 0, without_fee |-> 0, fee |-> 0]

\* Element_Pricing_Model.calc_spot_price: 1/pow((y_reserves+total_supply)/x_reserves,t)
Element_calc_spot_price_ok(x_reserves, y_reserves, total_supply, t) ==
  /\ x_reserves # 0
  /\ ~PowComplex(FDiv(y_reserves + total_supply, x_reserves), t)
  /\ FPow(FDiv(y_reserves + total_supply, x_reserves), t) # 0

Element_calc_spot_price(x_reserves, y_reserves, total_supply, t) == FDiv(ONE, FPow(FDiv(y_reserves + total_supply, x_reserves), t))

\* calc_in_given_out of each pricing class: fee = (out-without_fee)*g for token_in
\* "base" and (without_fee-out)*g for "fyt"
FeeIn(out, without_fee, token_in, g) == IF token_in = "base" THEN FMul(out - without_fee, g) ELSE FMul(without_fee - out, g)

\* calc_out_given_in of each pricing class: fee = (in_-without_fee)*g for token_out
\* "base" and (without_fee-in_)*g for "fyt"
FeeOut(in_, without_fee, token_out, g) == IF token_out = "base" THEN FMul(in_ - without_fee, g) ELSE FMul(without_fee - in_, g)

\* Element_Pricing_Model.calc_in_given_out
Element_calc_in_given_out(out, in_reserves, out_reserves, token_in, g, t, c, u) ==
  IF out_reserves = 0 THEN Raised
  ELSE IF PowComplex(in_reserves, ONE - t) \/ PowComplex(out_reserves, ONE - t) \/ PowComplex(out_reserves - out, ONE - t) THEN ComplexTuple
  ELSE LET k == FPow(in_reserves, ONE - t) + FPow(out_reserves, ONE - t)
           base == k - FPow(out_reserves - out, ONE - t)
       IN  IF PowComplex(base, FDiv(ONE, ONE - t)) \/ PowComplex(FDiv(in_reserves, out_reserves), t) THEN ComplexTuple
           ELSE LET without_fee == FPow(base, FDiv(ONE, ONE - t)) - in_reserves
                    fee == FeeIn(out, without_fee, token_in, g)
                    with_fee == without_fee + fee
                    without_fee_or_slippage == FMul(FPow(FDiv(in_reserves, out_reserves), t), out)
                IN  Tuple(without_fee_or_slippage, with_fee, without_fee, fee)

\* Element_Pricing_Model.calc_out_given_in
Element_calc_out_given_in(in_, in_reserves, out_reserves, token_out, g, t, c, u) ==
  IF out_reserves = 0 THEN Raised
  ELSE IF PowComplex(in_reserves, ONE - t) \/ PowComplex(out_reserves, ONE - t) \/ PowComplex(in_reserves + in_, ONE - t) THEN ComplexTuple
  ELSE LET k == FPow(in_reserves, ONE - t) + FPow(out_reserves, ONE - t)
           base == k - FPow(in_reserves + in_, ONE - t)
       IN  IF PowComplex(base, FDiv(ONE, ONE - t)) \/ PowComplex(FDiv(in_reserves, out_reserves), t) THEN ComplexTuple
           ELSE IF FPow(FDiv(in_reserves, out_reserves), t) = 0 THEN Raised
           ELSE LET without_fee == out_reserves - FPow(base, FDiv(ONE, ONE - t))
                    fee == FeeOut(in_, without_fee, token_out, g)
                    with_fee == without_fee - fee
                    without_fee_or_slippage == FMul(FDiv(ONE, FPow(FDiv(in_reserves, out_reserves), t)), in_)
                IN  Tuple(without_fee_or_slippage, with_fee, without_fee, fee)

\* YieldsSpacev2_Pricing_model.calc_spot_price: 1/pow(c*(y_reserves+total_supply)/(u*x_reserves),t)
YieldSpace_calc_spot_price_ok(x_reserves, y_reserves, total_supply, t, c, u) ==
  /\ FMul(u, x_reserves) # 0
  /\ ~PowComplex(FDiv(FMul(c, y_reserves + total_supply), FMul(u, x_reserves)), t)
  /\ FPow(FDiv(FMul(c, y_reserves + total_supply), FMul(u, x_reserves)), t) # 0

YieldSpace_calc_spot_price(x_reserves, y_reserves, total_supply, t, c, u) == FDiv(ONE, FPow(FDiv(FMul(c, y_reserves + total_supply), FMul(u, x_reserves)), t))

\* k = scale*(u*z)**(1-t)+y**(1-t)
YieldSpace_k(z, y, t, c, u) == FMul(FDiv(c, u), FPow(FMul(u, z), ONE - t)) + FPow(y, ONE - t)

YieldSpace_k_complex(z, y, t, c, u) == PowComplex(FMul(u, z), ONE - t) \/ PowComplex(y, ONE - t)

\* YieldsSpacev2_Pricing_model.calc_in_given_out (without_fee_old, which nothing uses, left out)
YieldSpace_calc_in_given_out(out, in_reserves, out_reserves, token_in, g, t, c, u) ==
  LET scale == FDiv(c, u)
  IN  IF token_in = "base"
        THEN LET dy == out
                 z == FDiv(in_reserves, c)
                 y == out_reserves
             IN  IF FMul(scale, out_reserves) = 0 THEN Raised
                 ELSE IF YieldSpace_k_complex(z, y, t, c, u) \/ PowComplex(y - dy, ONE - t) THEN ComplexTuple
                 ELSE LET k == YieldSpace_k(z, y, t, c, u)
                          base == FDiv(k - FPow(y - dy, ONE - t), scale)
                      IN  IF PowComplex(base, FDiv(ONE, ONE - t)) \/ PowComplex(FDiv(in_reserves, FMul(scale, out_reserves)), t) THEN ComplexTuple
                          ELSE LET without_fee == FMul(FMul(FDiv(ONE, u), FPow(base, FDiv(ONE, ONE - t))) - z, c)
                                   fee == FeeIn(out, without_fee, token_in, g)
                                   with_fee == without_fee + fee
                                   without_fee_or_slippage == FMul(FPow(FDiv(in_reserves, FMul(scale, out_reserves)), t), out)
                               IN  Tuple(without_fee_or_slippage, with_fee, without_fee, fee)
        ELSE LET dz == FDiv(out, c)
                 z == FDiv(out_reserves, c)
                 y == in_reserves
             IN  IF out_reserves = 0 THEN Raised
                 ELSE IF YieldSpace_k_complex(z, y, t, c, u) \/ PowComplex(FMul(u, z) - FMul(u, dz), ONE - t) THEN ComplexTuple
                 ELSE LET k == YieldSpace_k(z, y, t, c, u)
                          base == k - FMul(scale, FPow(FMul(u, z) - FMul(u, dz), ONE - t))
                      IN  IF PowComplex(base, FDiv(ONE, ONE - t)) \/ PowComplex(FDiv(FMul(scale, in_reserves), out_reserves), t) THEN ComplexTuple
                          ELSE LET without_fee == FPow(base, FDiv(ONE, ONE - t)) - y
                                   fee == FeeIn(out, without_fee, token_in, g)
                                   with_fee == without_fee + fee
                                   without_fee_or_slippage == FMul(FPow(FDiv(FMul(scale, in_reserves), out_reserves), t), out)
                               IN  Tuple(without_fee_or_slippage, with_fee, without_fee, fee)

\* a fee floor that lets the organic fee stand
MinFeeFloor_None(fee, in_) == fee

\* if fee/in_<5/100/100: fee = in_*5/100/100
MinFeeFloor(fee, in_) == IF FDiv(fee, in_) < FDiv(FDiv(5 * ONE, 100 * ONE), 100 * ONE) THEN FDiv(FDiv(FMul(in_, 5 * ONE), 100 * ONE), 100 * ONE) ELSE fee

\* the body shared by the calc_out_given_in of YieldsSpacev2_Pricing_model and of
\* YieldsSpacev2_Pricing_model_MinFee, whose only difference is the fee floor
\* (without_fee_old, which nothing uses, left out)
YieldSpace_out_given_in(in_, in_reserves, out_reserves, token_out, g, t, c, u, min_fee) ==
  LET scale == FDiv(c, u)
  IN  IF token_out = "base"
        THEN LET dy == in_
                 z == FDiv(out_reserves, c)
                 y == in_reserves
             IN  IF out_reserves = 0 THEN Raised
                 ELSE IF YieldSpace_k_complex(z, y, t, c, u) \/ PowComplex(y + dy, ONE - t) THEN (IF min_fee THEN Raised ELSE ComplexTuple)
                 ELSE LET k == YieldSpace_k(z, y, t, c, u)
                          base == FDiv(k - FPow(y + dy, ONE - t), scale)
                          ratio == FDiv(FMul(scale, in_reserves), out_reserves)
                      IN  IF PowComplex(base, FDiv(ONE, ONE - t)) \/ PowComplex(ratio, t) THEN (IF min_fee THEN Raised ELSE ComplexTuple)
                          ELSE IF FPow(ratio, t) = 0 \/ (min_fee /\ in_ = 0) THEN Raised
                          ELSE LET without_fee == FMul(z - FMul(FDiv(ONE, u), FPow(base, FDiv(ONE, ONE - t))), c)
                                   organic == FeeOut(in_, without_fee, token_out, g)
                                   fee == IF min_fee THEN MinFeeFloor(organic, in_) ELSE organic
                                   with_fee == without_fee - fee
                                   without_fee_or_slippage == FMul(FDiv(ONE, FPow(ratio, t)), in_)
                               IN  Tuple(without_fee_or_slippage, with_fee, without_fee, fee)
        ELSE LET dz == FDiv(in_, c)
                 z == FDiv(in_reserves, c)
                 y == out_reserves
             IN  IF FMul(scale, out_reserves) = 0 THEN Raised
                 ELSE IF YieldSpace_k_complex(z, y, t, c, u) \/ PowComplex(FMul(u, z) + FMul(u, dz), ONE - t) THEN (IF min_fee THEN Raised ELSE ComplexTuple)
                 ELSE LET k == YieldSpace_k(z, y, t, c, u)
                          base == k - FMul(scale, FPow(FMul(u, z) + FMul(u, dz), ONE - t))
                          ratio == FDiv(in_reserves, FMul(scale, out_reserves))
                      IN  IF PowComplex(base, FDiv(ONE, ONE - t)) \/ PowComplex(ratio, t) THEN (IF min_fee THEN Raised ELSE ComplexTuple)
                          ELSE IF FPow(ratio, t) = 0 \/ (min_fee /\ in_ = 0) THEN Raised
                          ELSE LET without_fee == y - FPow(base, FDiv(ONE, ONE - t))
                                   organic == FeeOut(in_, without_fee, token_out, g)
                                   fee == IF min_fee THEN MinFeeFloor(organic, in_) ELSE organic
                                   with_fee == without_fee - fee
                                   without_fee_or_slippage == FMul(FDiv(ONE, FPow(ratio, t)), in_)
                               IN  Tuple(without_fee_or_slippage, with_fee, without_fee, fee)

\* YieldsSpacev2_Pricing_model.calc_out_given_in
YieldSpace_calc_out_given_in(in_, in_reserves, out_reserves, token_out, g, t, c, u) == YieldSpace_out_given_in(in_, in_reserves, out_reserves, token_out, g, t, c, u, FALSE)

\* YieldsSpacev2_Pricing_model_MinFee.calc_in_given_out: the text of YieldsSpacev2_Pricing_model's
MinFee_calc_in_given_out(out, in_reserves, out_reserves, token_in, g, t, c, u) == YieldSpace_calc_in_given_out(out, in_reserves, out_reserves, token_in, g, t, c, u)

\* YieldsSpacev2_Pricing_model_MinFee.calc_out_given_in
MinFee_calc_out_given_in(in_, in_reserves, out_reserves, token_out, g, t, c, u) == YieldSpace_out_given_in(in_, in_reserves, out_reserves, token_out, g, t, c, u, TRUE)

\* pricing_model.calc_spot_price(x, y, total_supply, t, c, u): MinFee's is the text of
\* YieldsSpacev2_Pricing_model's, and Element's takes c and u as (u, c) and uses neither
calc_spot_price_ok(pricing_model, x_reserves, y_reserves, total_supply, t, c, u) ==
  IF pricing_model # "Element_Pricing_Model" THEN YieldSpace_calc_spot_price_ok(x_reserves, y_reserves, total_supply, t, c, u)
  ELSE Element_calc_spot_price_ok(x_reserves, y_reserves, total_supply, t)

calc_spot_price(pricing_model, x_reserves, y_reserves, total_supply, t, c, u) ==
  IF pricing_model # "Element_Pricing_Model" THEN YieldSpace_calc_spot_price(x_reserves, y_reserves, total_supply, t, c, u)
  ELSE Element_calc_spot_price(x_reserves, y_reserves, total_supply, t)

\* pricing_model.calc_in_given_out, by the model's class
calc_in_given_out(pricing_model, out, in_reserves, out_reserves, token_in, g, t, c, u) ==
  CASE pricing_model = "Element_Pricing_Model" -> Element_calc_in_given_out(out, in_reserves, out_reserves, token_in, g, t, c, u)
    [] pricing_model = "YieldsSpacev2" -> YieldSpace_calc_in_given_out(out, in_reserves, out_reserves, token_in, g, t, c, u)
    [] pricing_model = "YieldsSpacev2_MinFee" -> MinFee_calc_in_given_out(out, in_reserves, out_reserves, token_in, g, t, c, u)

\* pricing_model.calc_out_given_in, by the model's class
calc_out_given_in(pricing_model, in_, in_reserves, out_reserves, token_out, g, t, c, u) ==
  CASE pricing_model = "Element_Pricing_Model" -> Element_calc_out_given_in(in_, in_reserves, out_reserves, token_out, g, t, c, u)
    [] pricing_model = "YieldsSpacev2" -> YieldSpace_calc_out_given_in(in_, in_reserves, out_reserves, token_out, g, t, c, u)
    [] pricing_model = "YieldsSpacev2_MinFee" -> MinFee_calc_out_given_in(in_, in_reserves, out_reserves, token_out, g, t, c, u)

(***************************************************************************)
(* sim.py: liquidity, time stretch and APY of the pricing models.  An APY  *)
(* is a percentage (5 * ONE is 5%); days_until_maturity is a scaled number *)
(* of days.                                                                *)
(***************************************************************************)

\* calc_time_stretch, the same in all three classes: 3.09396 / (0.02789 * apy)
calc_time_stretch(apy_) == FDiv(30940, FMul(279, apy_))

\* calc_spot_price_from_apy, the same in all three classes: 1 - apy*T/100
calc_spot_price_from_apy(apy_, days_until_maturity) == ONE - FDiv(FMul(apy_, FDiv(days_until_maturity, 365 * ONE)), 100 * ONE)

\* apy(price, days_until_maturity), the same in all three classes: (1-price)/price/T * 100
apy(price, days_until_maturity) == FMul(FDiv(FDiv(ONE - price, price), FDiv(days_until_maturity, 365 * ONE)), 100 * ONE)

\* t = days_until_maturity/(365*time_stretch)
StretchedTime(days_until_maturity, time_stretch) == FDiv(days_until_maturity, FMul(365 * ONE, time_stretch))

\* calc_x_reserves: Element_Pricing_Model takes no c and u
calc_x_reserves(pricing_model, APY, y_reserves, days_until_maturity, time_stretch, c, u) ==
  LET t == StretchedTime(days_until_maturity, time_stretch)
      T == FDiv(days_until_maturity, 365 * ONE)
      r == FDiv(APY, 100 * ONE)
      power == FPow(FDiv(-ONE, FMul(r, T) - ONE), FDiv(ONE, t))
  IN  IF pricing_model = "Element_Pricing_Model"
        THEN FDiv(2 * y_reserves, power - ONE)
        ELSE FDiv(FMul(2 * c, y_reserves), -c + FMul(u, power))

\* calc_apy_from_reserves: the class's calc_spot_price, then its apy
calc_apy_from_reserves(pricing_model, x_reserves, y_reserves, total_supply, t, t_stretch, c, u) ==
  apy(calc_spot_price(pricing_model, x_reserves, y_reserves, total_supply, t, c, u), FMul(FMul(t, 365 * ONE), t_stretch))

\* the rescale of calc_liquidity that leaves y_reserves as it was
Rescale_XOnly(x_reserves, y_reserves, scaleUpFactor) == << FMul(x_reserves, scaleUpFactor), y_reserves >>

\* y_reserves = y_reserves * scaleUpFactor; x_reserves = x_reserves * scaleUpFactor
Rescale(x_reserves, y_reserves, scaleUpFactor) == << FMul(x_reserves, scaleUpFactor), FMul(y_reserves, scaleUpFactor) >>

\* liquidity = x_reserves*market_price + y_reserves*market_price*spot_price
Liquidity(x_reserves, y_reserves, market_price, spot_price_) == FMul(x_reserves, market_price) + FMul(FMul(y_reserves, market_price), spot_price_)

\* calc_liquidity, the same text in all three classes but for the class it calls;
\* it returns (x_reserves, y_reserves, liquidity)
calc_liquidity(pricing_model, target_liquidity, market_price, apy_, days_until_maturity, time_stretch, c, u) ==
  LET spot_price_ == calc_spot_price_from_apy(apy_, days_until_maturity)
      t == StretchedTime(days_until_maturity, time_stretch)
      y_reserves == FDiv(FDiv(FDiv(target_liquidity, market_price), 2 * ONE), ONE - FMul(FDiv(apy_, 100 * ONE), t))
      x_reserves == calc_x_reserves(pricing_model, apy_, y_reserves, days_until_maturity, time_stretch, c, u)
      scaleUpFactor == FDiv(target_liquidity, Liquidity(x_reserves, y_reserves, market_price, spot_price_))
      scaled == Rescale(x_reserves, y_reserves, scaleUpFactor)
  IN  [x_reserves |-> scaled[1], y_reserves |-> scaled[2], liquidity |-> Liquidity(scaled[1], scaled[2], market_price, spot_price_),
       \* history: the reserves before the rescale
       unscaled |-> << x_reserves, y_reserves >>]

(***************************************************************************)
(* sim.py: the liquidity-provider functions of Element_Pricing_Model,      *)
(* inherited by the other two classes                                      *)
(***************************************************************************)

\* what an LP function returns, or that it raised ZeroDivisionError
LpTuple(x_needed, y_needed, lp) == [raised |-> FALSE, x_needed |-> x_needed, y_needed |-> y_needed, lp |-> lp]

LpRaised == [raised |-> TRUE, x_needed |-> 0, y_needed |-> 0, lp |-> 0]

\* (y_reserves/x_reserves)*y_amount, the ratio upside down
XForY_Inverted(x_reserves, y_reserves, y_amount) == FMul(FDiv(y_reserves, x_reserves), y_amount)

\* (x_reserves/y_reserves)*y_amount: the x that goes with an amount of y
XForY(x_reserves, y_reserves, y_amount) == FMul(FDiv(x_reserves, y_reserves), y_amount)

\* x_amount/(x_reserves/y_reserves): the y that goes with an amount of x
YForX(x_reserves, y_reserves, x_amount) == FDiv(x_amount, FDiv(x_reserves, y_reserves))

\* the test of calc_lp_out_given_tokens_in that never takes the first branch
NotEnoughX_Never(x_needed, x_in) == FALSE

\* line 405: if x_needed > x_in
NotEnoughX(x_needed, x_in) == x_needed > x_in

calc_tokens_in_given_lp_out(lp_out, x_reserves, y_reserves, total_supply) ==
  IF total_supply = 0 THEN LpTuple(lp_out, 0, lp_out)
  ELSE IF y_reserves = 0 \/ FMul(FDiv(x_reserves, y_reserves), total_supply) = 0 THEN LpRaised
  ELSE LET y_needed == FDiv(FMul(lp_out, x_reserves), FMul(FDiv(x_reserves, y_reserves), total_supply))
       IN  LpTuple(XForY(x_reserves, y_reserves, y_needed), y_needed, lp_out)

calc_lp_out_given_tokens_in(x_in, y_in, x_reserves, y_reserves, total_supply) ==
  IF total_supply = 0 THEN LpTuple(x_in, 0, x_in)
  ELSE IF y_reserves = 0 \/ x_reserves = 0 THEN LpRaised
  ELSE LET x_needed == XForY(x_reserves, y_reserves, y_in)
       IN  IF NotEnoughX(x_needed, x_in)
             THEN IF FDiv(x_reserves, y_reserves) = 0 THEN LpRaised
                  ELSE LpTuple(x_in, YForX(x_reserves, y_reserves, x_in), FDiv(FMul(x_in, total_supply), x_reserves))
             ELSE LpTuple(x_needed, y_in, FDiv(FMul(x_needed, total_supply), x_reserves))

calc_lp_in_given_tokens_out(min_x_out, min_y_out, x_reserves, y_reserves, total_supply) ==
  IF y_reserves = 0 THEN LpRaised
  ELSE LET x_needed == XForY(x_reserves, y_reserves, min_y_out)
       IN  IF min_x_out > x_needed
             THEN IF x_reserves = 0 \/ FDiv(x_reserves, y_reserves) = 0 THEN LpRaised
                  ELSE LpTuple(min_x_out, YForX(x_reserves, y_reserves, min_x_out), FDiv(FMul(min_x_out, total_supply), x_reserves))
             ELSE LpTuple(x_needed, min_y_out, FDiv(FMul(min_y_out, total_supply), y_reserves))

calc_tokens_out_for_lp_in(lp_in, x_reserves, y_reserves, total_supply) ==
  IF y_reserves = 0 \/ FMul(FDiv(x_reserves, y_reserves), total_supply) = 0 THEN LpRaised
  ELSE LET y_needed == FDiv(FMul(lp_in, x_reserves), FMul(FDiv(x_reserves, y_reserves), total_supply))
       IN  LpTuple(XForY(x_reserves, y_reserves, y_needed), y_needed, lp_in)

(***************************************************************************)
(* State                                                                   *)
(***************************************************************************)
VARIABLES
  heap,                \* dict objects by identity: object id -> pool_info dict
  iface_pool_config,   \* interface.pool_config
  pc,                  \* calc_reserves_to_hit_target_rate: position of the call
  target_rate,         \* its argument
  pool_info,           \* its local pool_info: the id of a dict in the heap
  pool_config,         \* its local pool_config
  iteration,
  predicted_rate,
  total_shares_needed,
  total_bonds_needed,
  bonds_needed,        \* bonds_needed of the latest iteration
  prev_bonds_needed,   \* history: bonds_needed of the iteration before it
  exit_by,             \* history: "test" (while condition false) or "break"
  entry_info,          \* history: interface.pool_info when the call began
  prev_call,           \* history: result and exit of the call completed before
  market,              \* the simulator's Market object
  last,                \* history: the latest call on the Market, its arguments and what it returned
  fuzz,                \* fuzz_profit_check: its position, the trades' events and the agent's balances
  sims,                \* the yieldSimulator objects, with the history of their calls
  rng,                 \* np.random: the state of the process's generator, and the seed it was
                       \* given if nothing was drawn since
  calls,               \* history: the calls made on the simulators
  calc,                \* history: the latest call of a pricing model's static method, its arguments and result
  hyperdrive,          \* the HyperdriveInterface object, the chain it reads, and its latest calc_* call
  conv,                \* history: the latest conversion of a hypertypes structure and what came back
  agent,               \* the agent of multi_trade_per_block_test, its policy and the trade events
  arb                  \* history: the latest call of LPandArb.action, its arguments and the list it returned

solver_vars == << heap, iface_pool_config, pc, target_rate, pool_info, pool_config, iteration, predicted_rate, total_shares_needed, total_bonds_needed, bonds_needed, prev_bonds_needed, exit_by, entry_info, prev_call >>

market_vars == << market, last >>

sim_vars == << sims, rng, calls >>

ext_vars == << conv, agent, arb >>

aux_vars == << fuzz, sim_vars, calc, hyperdrive, ext_vars >>

vars == << solver_vars, market_vars, aux_vars >>

(***************************************************************************)
(* lpandarb.py: calc_reserves_to_hit_target_rate                           *)
(***************************************************************************)

\* the dict object interface.pool_info, and the one dict.copy() allocates
IFACE == "interface.pool_info"
LOCAL_COPY == "pool_info"

\* an assignment in place of .copy(): the same dict under a second name
DictCopy_Alias(ref) == ref

\* interface.pool_info.copy(): a new dict object with the same items
DictCopy(ref) == LOCAL_COPY

\* while float(abs(predicted_rate - target_rate)) > TOLERANCE
LoopCondition(predicted, target) == Abs(predicted - target) > TOLERANCE

\* the break test off by one
BreakCondition_OffByOne(iter) == iter > MAX_ITER

\* if iteration >= MAX_ITER: break
BreakCondition(iter) == iter >= MAX_ITER

\* the whole distance to the target in one step
BondsNeeded_Whole(target_bonds, bond_reserves) == target_bonds - bond_reserves

\* bonds_needed = (target_bonds - pool_info["bondReserves"]) / FixedPoint(2)
BondsNeeded(target_bonds, bond_reserves) == FDiv(target_bonds - bond_reserves, 2 * ONE)

\* pool_info["shareReserves"] += -shares_out - gov_fee
ShortShareReserves(share_reserves, shares_out, gov_fee) == share_reserves + (-shares_out - gov_fee)

\* pool_info["shareReserves"] += shares_in - gov_fee
LongShareReserves(share_reserves, shares_in, gov_fee) == share_reserves + (shares_in - gov_fee)

\* the update with its sign flipped
UpdateBondReserves_Minus(bond_reserves, bonds) == bond_reserves - bonds

\* pool_info["bondReserves"] += bonds_needed
UpdateBondReserves(bond_reserves, bonds) == bond_reserves + bonds

\* the totals measured from the wrong side
TotalNeeded_Swapped(working, original) == original - working

\* total_shares_needed = pool_info["shareReserves"] - interface.pool_info["shareReserves"]
\* total_bonds_needed = pool_info["bondReserves"] - interface.pool_info["bondReserves"]
TotalNeeded(working, original) == working - original

TargetBondsOk(info, cfg, target) == calc_bond_reserves_ok(info.shareReserves, info.shareAdjustment, cfg.initialSharePrice, target, cfg.positionDuration, cfg.invTimeStretch)

TargetBonds(info, cfg, target) == calc_bond_reserves(info.shareReserves, info.shareAdjustment, cfg.initialSharePrice, target, cfg.positionDuration, cfg.invTimeStretch)

\* predicted_rate = calc_apr_local(shareReserves, FixedPoint(0), bondReserves, ...)
PredictedRateOk(info, cfg) == calc_apr_local_ok(info.shareReserves, 0, info.bondReserves, cfg.initialSharePrice, cfg.positionDuration, cfg.timeStretch)

PredictedRate(info, cfg) == calc_apr_local(info.shareReserves, 0, info.bondReserves, cfg.initialSharePrice, cfg.positionDuration, cfg.timeStretch)

\* the short branch: the pool_info dict after lines 349-361 and 376
ShortOk(info, cfg, bonds) == get_shares_out_for_bonds_in_ok(info.bondReserves, info.sharePrice, cfg.initialSharePrice, info.shareReserves, bonds, cfg.timeStretch, cfg.curveFee, cfg.governanceFee)

ShortCase(info, cfg, bonds) ==
  LET r == get_shares_out_for_bonds_in(info.bondReserves, info.sharePrice, cfg.initialSharePrice, info.shareReserves, bonds, cfg.timeStretch, cfg.curveFee, cfg.governanceFee)
  IN  [info EXCEPT !.shareReserves = ShortShareReserves(info.shareReserves, r[1], r[3]),
                   !.bondReserves = UpdateBondReserves(info.bondReserves, bonds)]

\* the long branch: the pool_info dict after lines 363-376
LongOk(info, cfg, bonds) == get_shares_in_for_bonds_out_ok(info.bondReserves, info.sharePrice, cfg.initialSharePrice, info.shareReserves, -bonds, cfg.timeStretch, cfg.curveFee, cfg.governanceFee)

LongCase(info, cfg, bonds) ==
  LET r == get_shares_in_for_bonds_out(info.bondReserves, info.sharePrice, cfg.initialSharePrice, info.shareReserves, -bonds, cfg.timeStretch, cfg.curveFee, cfg.governanceFee)
  IN  [info EXCEPT !.shareReserves = LongShareReserves(info.shareReserves, r[1], r[3]),
                   !.bondReserves = UpdateBondReserves(info.bondReserves, bonds)]

NoCall == [ret |-> << 0, 0 >>, exit_by |-> "none", converged |-> FALSE]

\* the call's outcome as its caller could describe it
Converged == ~LoopCondition(predicted_rate, target_rate)

\* calc_reserves_to_hit_target_rate(target_rate, interface): lines 323-330
Call(target, keep_history) ==
  /\ pc \in {"idle", "done", "raised"}
  /\ target_rate' = target
  /\ predicted_rate' = 0
  /\ pool_config' = iface_pool_config
  /\ pool_info' = DictCopy(IFACE)
  /\ heap' = [o \in DOMAIN heap \cup {pool_info'} |-> heap[IFACE]]
  /\ iteration' = 0
  /\ total_shares_needed' = 0
  /\ total_bonds_needed' = 0
  /\ bonds_needed' = 0
  /\ prev_bonds_needed' = 0
  /\ exit_by' = "none"
  /\ entry_info' = heap[IFACE]
  /\ prev_call' = IF keep_history /\ pc = "done" THEN [ret |-> << total_shares_needed, total_bonds_needed >>, exit_by |-> exit_by, converged |-> Converged] ELSE prev_call
  /\ pc' = "test"
  /\ UNCHANGED << iface_pool_config, market, last, aux_vars >>

\* the while test of line 333; when it is false the function returns (line 398)
LoopTest ==
  /\ pc = "test"
  /\ IF LoopCondition(predicted_rate, target_rate)
       THEN pc' = "body" /\ UNCHANGED exit_by
       ELSE pc' = "done" /\ exit_by' = "test"
  /\ UNCHANGED << heap, iface_pool_config, target_rate, pool_info, pool_config, iteration, predicted_rate, total_shares_needed, total_bonds_needed, bonds_needed, prev_bonds_needed, entry_info, prev_call , market, last, aux_vars >>

\* one pass of the loop body, lines 334-393, that raises nothing
Iterate(short) ==
  /\ pc = "body"
  /\ TargetBondsOk(heap[pool_info], pool_config, target_rate)
  /\ \E bonds \in {BondsNeeded(TargetBonds(heap[pool_info], pool_config, target_rate), heap[pool_info].bondReserves)} :
       /\ short = (bonds > 0)
       /\ IF short THEN ShortOk(heap[pool_info], pool_config, bonds) ELSE LongOk(heap[pool_info], pool_config, bonds)
       /\ \E new_info \in {IF short THEN ShortCase(heap[pool_info], pool_config, bonds) ELSE LongCase(heap[pool_info], pool_config, bonds)} :
            /\ PredictedRateOk(new_info, pool_config)
            /\ heap' = [heap EXCEPT ![pool_info] = new_info]
            /\ total_shares_needed' = TotalNeeded(heap'[pool_info].shareReserves, heap'[IFACE].shareReserves)
            /\ total_bonds_needed' = TotalNeeded(heap'[pool_info].bondReserves, heap'[IFACE].bondReserves)
            /\ predicted_rate' = PredictedRate(new_info, pool_config)
       /\ bonds_needed' = bonds
       /\ prev_bonds_needed' = bonds_needed
  /\ iteration' = iteration + 1
  /\ IF BreakCondition(iteration')
       THEN pc' = "done" /\ exit_by' = "break"
       ELSE pc' = "test" /\ UNCHANGED exit_by
  /\ UNCHANGED << iface_pool_config, target_rate, pool_info, pool_config, entry_info, prev_call, market, last, aux_vars >>

IterateShort == Iterate(TRUE)

IterateLong == Iterate(FALSE)

\* a pass of the loop body in which a FixedPoint operation raises
IterateRaises ==
  /\ pc = "body"
  /\ LET info == heap[pool_info]
     IN  \/ ~TargetBondsOk(info, pool_config, target_rate)
         \/ LET bonds == BondsNeeded(TargetBonds(info, pool_config, target_rate), info.bondReserves)
            IN  IF bonds > 0
                  THEN \/ ~ShortOk(info, pool_config, bonds)
                       \/ ~PredictedRateOk(ShortCase(info, pool_config, bonds), pool_config)
                  ELSE \/ ~LongOk(info, pool_config, bonds)
                       \/ ~PredictedRateOk(LongCase(info, pool_config, bonds), pool_config)
  /\ pc' = "raised"
  /\ iteration' = iteration + 1
  /\ UNCHANGED << heap, iface_pool_config, target_rate, pool_info, pool_config, predicted_rate, total_shares_needed, total_bonds_needed, bonds_needed, prev_bonds_needed, exit_by, entry_info, prev_call , market, last, aux_vars >>

(***************************************************************************)
(* The solver's inputs                                                     *)
(***************************************************************************)

\* pool configurations: time stretch 1/2, terms of one and two years
Configs ==
  { [initialSharePrice |-> ONE, positionDuration |-> d * ONE, timeStretch |-> HALF, invTimeStretch |-> FDiv(ONE, HALF), curveFee |-> f, governanceFee |-> ONE \div 10, minimumShareReserves |-> ONE \div 10, minimumTransactionAmount |-> ONE \div 1000] : d \in {365, 730}, f \in {0, ONE \div 10} }

\* fixed rates 0.5%, 5% and 50%, as scaled integers
Rates == {50, 500, 5000}

\* pools of one or four shares whose bonds put the fixed rate at a rate of Rates
PoolInfos(cfg) ==
  { [shareReserves |-> z, shareAdjustment |-> zeta, bondReserves |-> calc_bond_reserves(z, zeta, cfg.initialSharePrice, r, cfg.positionDuration, cfg.invTimeStretch), sharePrice |-> ONE] : z \in {ONE, 4 * ONE}, zeta \in {0, ONE \div 4}, r \in Rates }

\* no rate to move to, the rates of Rates, and 200%
TargetRates == {0, 2 * ONE} \cup Rates

\* api.py _ensure_current_state: between calls the interface may pick up a new block's pool_info
Refetch(info) ==
  /\ pc \in {"idle", "done", "raised"}
  /\ info # heap[IFACE]
  /\ heap' = [heap EXCEPT ![IFACE] = info]
  /\ UNCHANGED << iface_pool_config, pc, target_rate, pool_info, pool_config, iteration, predicted_rate, total_shares_needed, total_bonds_needed, bonds_needed, prev_bonds_needed, exit_by, entry_info, prev_call , market, last, aux_vars >>

(***************************************************************************)
(* sim.py: the Market                                                      *)
(***************************************************************************)

\* the most applied swaps a Market of the model takes
MaxOrders == 2

NoSwap == [op |-> "none"]

\* Market.spot_price
spot_price_ok(m) == calc_spot_price_ok(m.pricing_model, m.x, m.y, m.total_supply, m.t, m.c, m.u)

spot_price(m) == calc_spot_price(m.pricing_model, m.x, m.y, m.total_supply, m.t, m.c, m.u)

\* Market.__init__
NewMarket(x, y, g, t, total_supply, pricing_model, c, u) ==
  LET m == [x |-> x, y |-> y, total_supply |-> total_supply, g |-> g, t |-> t, c |-> c, u |-> u, pricing_model |-> pricing_model, x_orders |-> 0, y_orders |-> 0, x_volume |-> 0, y_volume |-> 0, cum_y_slippage |-> 0, cum_x_slippage |-> 0, cum_y_fees |-> 0, cum_x_fees |-> 0]
  IN  [fld \in DOMAIN m \cup {"starting_fyt_price"} |-> IF fld = "starting_fyt_price" THEN spot_price(m) ELSE m[fld]]

\* the pricing call swap makes in each of its four branches
SwapQuote(m, amount, direction, token_in, token_out) ==
  CASE direction = "in" /\ token_in = "fyt" -> calc_in_given_out(m.pricing_model, amount, m.y + m.total_supply, m.x, token_in, m.g, m.t, m.c, m.u)
    [] direction = "in" /\ token_in = "base" -> calc_in_given_out(m.pricing_model, amount, m.x, m.y + m.total_supply, token_in, m.g, m.t, m.c, m.u)
    [] direction = "out" /\ token_in = "fyt" -> calc_out_given_in(m.pricing_model, amount, m.y + m.total_supply, m.x, token_out, m.g, m.t, m.c, m.u)
    [] direction = "out" /\ token_in = "base" -> calc_out_given_in(m.pricing_model, amount, m.x, m.y + m.total_supply, token_out, m.g, m.t, m.c, m.u)

\* the test under which swap applies a trade
SwapApplies(fee) == fee > 0

\* a comparison that takes the real part of a complex fee and goes on
FeeTestRaises_Never(q) == FALSE

\* fee > 0 on a complex fee: '>' is not supported between complex and int, TypeError
FeeTestRaises(q) == q.status = "complex"

\* the updates of a branch of swap whose fee is positive
SwapUpdate(m, amount, direction, token_in, q) ==
  LET slippage == Abs(q.without_fee_or_slippage - q.without_fee)
  IN  CASE direction = "in" /\ token_in = "fyt" ->
             [m EXCEPT !.x = @ - q.with_fee, !.y = @ + amount, !.cum_x_slippage = @ + slippage, !.cum_y_fees = @ + q.fee, !.x_orders = @ + 1, !.x_volume = @ + q.with_fee]
        [] direction = "in" /\ token_in = "base" ->
             [m EXCEPT !.x = @ + amount, !.y = @ - q.with_fee, !.cum_y_slippage = @ + slippage, !.cum_x_fees = @ + q.fee, !.y_orders = @ + 1, !.y_volume = @ + q.with_fee]
        [] direction = "out" /\ token_in = "fyt" ->
             [m EXCEPT !.x = @ - q.with_fee, !.y = @ + amount, !.cum_x_slippage = @ + slippage, !.cum_x_fees = @ + q.fee, !.x_orders = @ + 1, !.x_volume = @ + q.with_fee]
        [] direction = "out" /\ token_in = "base" ->
             [m EXCEPT !.x = @ + amount, !.y = @ - q.with_fee, !.cum_y_slippage = @ + slippage, !.cum_y_fees = @ + q.fee, !.y_orders = @ + 1, !.y_volume = @ + q.with_fee]

\* the latest call only observed the Market through the pure pricing functions; what
\* can follow it can follow the state it observed just as well, so the run ends there
Probed == last.op \in {"round_trip", "local"}

OtherToken(token) == IF token = "base" THEN "fyt" ELSE "base"

\* Market.swap(amount, direction, token_in, token_out); a complex fee makes the
\* test fee > 0 raise TypeError, and an error leaves the Market as it was
Swap(amount, direction, token_in) ==
  /\ ~Probed
  /\ market.x_orders + market.y_orders < MaxOrders
  /\ \E q \in {SwapQuote(market, amount, direction, token_in, OtherToken(token_in))} :
       LET applied == q.status # "raises" /\ ~FeeTestRaises(q) /\ SwapApplies(q.fee)
       IN  /\ market' = IF applied THEN SwapUpdate(market, amount, direction, token_in, q) ELSE market
           /\ last' = [op |-> "swap", amount |-> amount, direction |-> direction, token_in |-> token_in, token_out |-> OtherToken(token_in), before |-> market, quote |-> q, raised |-> q.status = "raises" \/ FeeTestRaises(q), applied |-> applied]
  /\ UNCHANGED << solver_vars, aux_vars >>

\* a tick that leaves the time where it was
tick_Still(m, step_size) == m

\* Market.tick: self.t -= step_size
tick(m, step_size) == [m EXCEPT !.t = @ - step_size]

\* Market.tick(step_size), for the steps that keep t among the exponents of the model
Tick(step_size) ==
  /\ ~Probed
  /\ market.t - step_size \in {0, THIRD, HALF}
  /\ market' = tick(market, step_size)
  /\ last' = [op |-> "tick", before |-> market]
  /\ UNCHANGED << solver_vars, aux_vars >>

\* calc_out_given_in on the Market's reserves with no fee, its without-fee output
\* fed to calc_in_given_out on the same reserves
RoundTrip(in_, token_out) ==
  /\ ~Probed
  /\ LET in_reserves == IF token_out = "base" THEN market.y + market.total_supply ELSE market.x
         out_reserves == IF token_out = "base" THEN market.x ELSE market.y + market.total_supply
     IN  \E forward \in {calc_out_given_in(market.pricing_model, in_, in_reserves, out_reserves, token_out, 0, market.t, market.c, market.u)} :
           \E back \in {IF forward.status = "real" THEN calc_in_given_out(market.pricing_model, forward.without_fee, in_reserves, out_reserves, OtherToken(token_out), 0, market.t, market.c, market.u) ELSE forward} :
             last' = [op |-> "round_trip", amount |-> in_, token_out |-> token_out, in_reserves |-> in_reserves, out_reserves |-> out_reserves, forward |-> forward, back |-> back, before |-> market]
  /\ UNCHANGED market
  /\ UNCHANGED << solver_vars, aux_vars >>

\* the governance fee rate of the pools get_shares_* is applied to
GOV_FEE == ONE \div 10

\* get_shares_in_for_bonds_out / get_shares_out_for_bonds_in of lpandarb.py applied to
\* the pool the Market describes: share reserves x/c, bond reserves y+total_supply,
\* share price c, initial share price u, time stretch t, curve fee g
LocalQuote(bonds, fn) ==
  /\ ~Probed
  /\ LET bond_reserves == market.y + market.total_supply
         share_reserves == FDiv(market.x, market.c)
         ok == IF fn = "get_shares_in_for_bonds_out"
                 THEN get_shares_in_for_bonds_out_ok(bond_reserves, market.c, market.u, share_reserves, bonds, market.t, market.g, GOV_FEE)
                 ELSE get_shares_out_for_bonds_in_ok(bond_reserves, market.c, market.u, share_reserves, bonds, market.t, market.g, GOV_FEE)
     IN  \E ret \in {IF ~ok THEN << 0, 0, 0 >>
                     ELSE IF fn = "get_shares_in_for_bonds_out"
                       THEN get_shares_in_for_bonds_out(bond_reserves, market.c, market.u, share_reserves, bonds, market.t, market.g, GOV_FEE)
                       ELSE get_shares_out_for_bonds_in(bond_reserves, market.c, market.u, share_reserves, bonds, market.t, market.g, GOV_FEE)} :
           last' = [op |-> "local", fn |-> fn, bonds |-> bonds, raised |-> ~ok, ret |-> ret, spot_price |-> IF ok THEN calc_spot_price_local(market.u, share_reserves, 0, bond_reserves, market.t) ELSE 0, before |-> market]
  /\ UNCHANGED market
  /\ UNCHANGED << solver_vars, aux_vars >>

\* the reserves, fee rate, time, pricing model and share price the simulator's Markets start from
Markets ==
  { NewMarket(x, y, g, t, x + y, pm[1], pm[2], ONE) : x \in {ONE, 4 * ONE}, y \in {2 * ONE}, g \in {0, ONE \div 10}, t \in {THIRD, HALF}, pm \in {<< "Element_Pricing_Model", ONE >>, << "YieldsSpacev2", ONE >>, << "YieldsSpacev2", (12 * ONE) \div 10 >>, << "YieldsSpacev2_MinFee", (12 * ONE) \div 10 >>} }

\* trade sizes: half a token and two tokens
Amounts == {ONE \div 2, 2 * ONE}

\* the step_size of a tick
Steps == {THIRD}

\* the Market of a run that makes none
NoMarket == NewMarket(ONE, ONE, 0, HALF, 2 * ONE, "Element_Pricing_Model", ONE, ONE)

(***************************************************************************)
(* fuzz_profit_check.py: a long and a short, each opened and closed within *)
(* one checkpoint.  The pool answers a trade as lpandarb.py computes it:   *)
(* get_shares_in_for_bonds_out when bonds leave the pool, and              *)
(* get_shares_out_for_bonds_in when bonds enter it.                        *)
(***************************************************************************)

\* pool_config.minimum_transaction_amount of the fuzzed pool
MinimumTransactionAmount == ONE \div 10

\* check_data before the first trade
NoFuzz == [pc |-> "start", bonds |-> 0, base_provided |-> 0, base_returned |-> 0, initial_agent_balance |-> 0, final_agent_balance |-> 0, long |-> << 0, 0 >>, failed |-> FALSE]

\* base paid or received for an amount of shares
BaseOfShares(shares, share_price) == FMul(shares, share_price)

\* what opening a long for `bonds` bonds costs, in base
LongBasePaid(info, cfg, bonds) == BaseOfShares(get_shares_in_for_bonds_out(info.bondReserves, info.sharePrice, cfg.initialSharePrice, info.shareReserves, bonds, cfg.timeStretch, cfg.curveFee, cfg.governanceFee)[1], info.sharePrice)

\* the same sale with the curve fee paid to the seller instead of charged
BondsSoldFor_FeePaidOut(info, cfg, bonds) == BaseOfShares(get_shares_out_for_bonds_in(info.bondReserves, info.sharePrice, cfg.initialSharePrice, info.shareReserves, bonds, cfg.timeStretch, cfg.curveFee, cfg.governanceFee)[1] + 2 * get_shares_out_for_bonds_in(info.bondReserves, info.sharePrice, cfg.initialSharePrice, info.shareReserves, bonds, cfg.timeStretch, cfg.curveFee, cfg.governanceFee)[2], info.sharePrice)

\* what selling `bonds` bonds to the pool yields, in base
BondsSoldFor(info, cfg, bonds) == BaseOfShares(get_shares_out_for_bonds_in(info.bondReserves, info.sharePrice, cfg.initialSharePrice, info.shareReserves, bonds, cfg.timeStretch, cfg.curveFee, cfg.governanceFee)[1], info.sharePrice)

\* the trade is no larger than calc_max_long / calc_max_short allow: the pool can
\* price it, keeps its minimum share reserves, and its spot price stays at or below one
WithinMaxTrade(after, cfg) ==
  /\ after.bondReserves > 0
  /\ after.shareReserves >= cfg.minimumShareReserves
  /\ calc_spot_price_local_ok(cfg.initialSharePrice, after.shareReserves, 0, after.bondReserves, cfg.timeStretch)
  /\ calc_spot_price_local(cfg.initialSharePrice, after.shareReserves, 0, after.bondReserves, cfg.timeStretch) <= ONE

\* lines 84-107: the agent, funded with exactly the trade amount, opens a long
OpenLong(bonds) ==
  /\ pc = "idle"
  /\ fuzz.pc = "start"
  /\ LongOk(heap[IFACE], iface_pool_config, -bonds)
  /\ \E after \in {LongCase(heap[IFACE], iface_pool_config, -bonds)} :
       \E paid \in {LongBasePaid(heap[IFACE], iface_pool_config, bonds)} :
         /\ WithinMaxTrade(after, iface_pool_config)
         /\ paid >= MinimumTransactionAmount
         /\ heap' = [heap EXCEPT ![IFACE] = after]
         /\ fuzz' = [fuzz EXCEPT !.pc = "long_open", !.bonds = bonds, !.base_provided = paid, !.initial_agent_balance = paid, !.final_agent_balance = 0]
  /\ UNCHANGED << iface_pool_config, pc, target_rate, pool_info, pool_config, iteration, predicted_rate, total_shares_needed, total_bonds_needed, bonds_needed, prev_bonds_needed, exit_by, entry_info, prev_call, market, last, sim_vars, calc, hyperdrive, ext_vars >>

\* lines 109-120: the whole long is closed in the checkpoint it was opened in
CloseLong ==
  /\ fuzz.pc = "long_open"
  /\ ShortOk(heap[IFACE], iface_pool_config, fuzz.bonds)
  /\ \E after \in {ShortCase(heap[IFACE], iface_pool_config, fuzz.bonds)} :
       \E got \in {BondsSoldFor(heap[IFACE], iface_pool_config, fuzz.bonds)} :
         /\ heap' = [heap EXCEPT ![IFACE] = after]
         /\ fuzz' = [fuzz EXCEPT !.pc = "long_closed", !.base_returned = got, !.final_agent_balance = fuzz.final_agent_balance + got]
  /\ UNCHANGED << iface_pool_config, pc, target_rate, pool_info, pool_config, iteration, predicted_rate, total_shares_needed, total_bonds_needed, bonds_needed, prev_bonds_needed, exit_by, entry_info, prev_call, market, last, sim_vars, calc, hyperdrive, ext_vars >>

\* the deposit that opens a short of `bonds` bonds: the bonds' face value less
\* what the pool pays for them
ShortDeposit(info, cfg, bonds) == bonds - BondsSoldFor(info, cfg, bonds)

\* what closing a short of `bonds` bonds returns: the face value less the price
\* of buying the bonds back
ShortProceeds(info, cfg, bonds) == Max(0, bonds - LongBasePaid(info, cfg, bonds))

\* lines 127-151: a second agent, funded with the deposit, opens a short
OpenShort(bonds) ==
  /\ fuzz.pc = "long_closed"
  /\ ShortOk(heap[IFACE], iface_pool_config, bonds)
  /\ \E after \in {ShortCase(heap[IFACE], iface_pool_config, bonds)} :
       \E paid \in {ShortDeposit(heap[IFACE], iface_pool_config, bonds)} :
         /\ WithinMaxTrade(after, iface_pool_config)
         /\ bonds >= MinimumTransactionAmount
         /\ heap' = [heap EXCEPT ![IFACE] = after]
         /\ fuzz' = [fuzz EXCEPT !.pc = "short_open", !.bonds = bonds, !.base_provided = paid, !.initial_agent_balance = paid, !.final_agent_balance = 0,
                                 !.long = << fuzz.base_provided, fuzz.base_returned, fuzz.initial_agent_balance, fuzz.final_agent_balance >>]
  /\ UNCHANGED << iface_pool_config, pc, target_rate, pool_info, pool_config, iteration, predicted_rate, total_shares_needed, total_bonds_needed, bonds_needed, prev_bonds_needed, exit_by, entry_info, prev_call, market, last, sim_vars, calc, hyperdrive, ext_vars >>

\* lines 153-163: the whole short is closed in the checkpoint it was opened in
CloseShort ==
  /\ fuzz.pc = "short_open"
  /\ LongOk(heap[IFACE], iface_pool_config, -fuzz.bonds)
  /\ \E after \in {LongCase(heap[IFACE], iface_pool_config, -fuzz.bonds)} :
       \E got \in {ShortProceeds(heap[IFACE], iface_pool_config, fuzz.bonds)} :
         /\ heap' = [heap EXCEPT ![IFACE] = after]
         /\ fuzz' = [fuzz EXCEPT !.pc = "short_closed", !.base_returned = got, !.final_agent_balance = fuzz.final_agent_balance + got]
  /\ UNCHANGED << iface_pool_config, pc, target_rate, pool_info, pool_config, iteration, predicted_rate, total_shares_needed, total_bonds_needed, bonds_needed, prev_bonds_needed, exit_by, entry_info, prev_call, market, last, sim_vars, calc, hyperdrive, ext_vars >>

\* invariant_check's comparison, for one side of check_data
ReturnedNotLess(base_amount_returned, base_amount_provided) == base_amount_returned >= base_amount_provided

\* invariant_check: fails when either side returned at least what it was given,
\* or left its agent with more than it started with
invariant_check(check_data) ==
  \/ ReturnedNotLess(check_data.long[2], check_data.long[1])
  \/ check_data.long[4] > check_data.long[3]
  \/ ReturnedNotLess(check_data.base_returned, check_data.base_provided)
  \/ check_data.final_agent_balance > check_data.initial_agent_balance

\* line 182: invariant_check(check_data)
InvariantCheck ==
  /\ fuzz.pc = "short_closed"
  /\ fuzz' = [fuzz EXCEPT !.pc = "checked", !.failed = invariant_check(fuzz)]
  /\ UNCHANGED << solver_vars, market_vars, sim_vars, calc, hyperdrive, ext_vars >>

(***************************************************************************)
(* sim.py: yieldSimulator.  np.random is one generator for the whole       *)
(* process: every draw of every simulator advances the same state.         *)
(***************************************************************************)

\* the states of the generator
RNG_M == 16

\* the generator's state after one draw
NextRng(r) == (5 * r + 3) % RNG_M

RECURSIVE RngAfter(_, _)
\* the generator's state after k draws
RngAfter(r, k) == IF k = 0 THEN r ELSE RngAfter(NextRng(r), k - 1)

\* np.random.uniform(lo, hi) drawn at state r
uniform(lo, hi, r) == lo + ((hi - lo) * r) \div RNG_M

\* np.random.randint(lo, hi) drawn at state r
randint(lo, hi, r) == lo + ((hi - lo) * r) \div RNG_M

\* np.random.normal(mean, sd) drawn at state r: the mean, or one deviation off it
normal(mean, sd, r) == mean + sd * (((3 * r) \div RNG_M) - 1)

\* np.around(x, decimals), for decimals of at most four
around(x, decimals) ==
  LET unit == CASE decimals = 0 -> ONE [] decimals = 1 -> 1000 [] decimals = 2 -> 100 [] decimals = 3 -> 10 [] OTHER -> 1
  IN  ((x + unit \div 2) \div unit) * unit

\* the keyword arguments the simulators are constructed with, but for the pricing model's name
SimKwargs ==
  [step_size |-> HALF - THIRD, min_fee |-> 0, max_fee |-> ONE \div 5, t_min |-> 0, t_max |-> ONE, tokens |-> << "base", "fyt" >>,
   min_target_liquidity |-> 10 * ONE, max_target_liquidity |-> 20 * ONE, min_target_volume |-> 2 * ONE, max_target_volume |-> 4 * ONE,
   min_apy |-> 5 * ONE, max_apy |-> 5 * ONE, min_vault_age |-> 0, max_vault_age |-> 0, min_vault_apy |-> 0, max_vault_apy |-> 730 * ONE,
   min_pool_age |-> 0, max_pool_age |-> 0, base_asset_price |-> ONE, precision |-> 2, trade_direction |-> "out",
   days_until_maturity |-> 4048 * ONE, num_trading_days |-> 2]

\* the random parameters before set_sim_params has drawn them
NoParams == [target_liquidity |-> SimKwargs.min_target_liquidity, target_daily_volume |-> SimKwargs.min_target_volume, start_apy |-> SimKwargs.min_apy, fee_percent |-> SimKwargs.min_fee, init_vault_age |-> 0, vault_apy |-> 0, pool_age |-> 0]

\* yieldSimulator.__init__
NewSimulator(pricing_model_name) ==
  [pricing_model_name |-> pricing_model_name, current_time_index |-> 0, analysis_dict |-> << >>, sim_params_set |-> FALSE,
   params |-> NoParams, has_market |-> FALSE, market |-> NoMarket, pc |-> "idle", day |-> 0, day_trading_volume |-> 0,
   t_stretch |-> 0, raised |-> "none", runs |-> 0,
   \* history: the seed the generator was given just before set_sim_params, and its state
   \* when set_sim_params ended; that seed again if the instance's first run began right
   \* after its set_sim_params; whether
   \* set_sim_params was called since the latest run; the rows at the end of the latest
   \* run; the trades of the latest run
   params_seed |-> -1, params_end |-> -1, run_seed |-> -1, params_since_run |-> FALSE, done_rows |-> << >>, trades |-> << >>]

\* set_sim_params: seven draws, in the order of the code
set_sim_params(sim, r) ==
  LET kw == SimKwargs
      init_vault_age == uniform(kw.min_vault_age, kw.max_vault_age, RngAfter(r, 4))
  IN  [sim EXCEPT !.params = [target_liquidity |-> uniform(kw.min_target_liquidity, kw.max_target_liquidity, r),
                              target_daily_volume |-> uniform(kw.min_target_volume, kw.max_target_volume, RngAfter(r, 1)),
                              start_apy |-> uniform(kw.min_apy, kw.max_apy, RngAfter(r, 2)),
                              fee_percent |-> uniform(kw.min_fee, kw.max_fee, RngAfter(r, 3)),
                              init_vault_age |-> init_vault_age,
                              vault_apy |-> FDiv(uniform(kw.min_vault_apy, kw.max_vault_apy, RngAfter(r, 5)), 100 * ONE),
                              pool_age |-> uniform(Min(init_vault_age, kw.min_pool_age), kw.max_pool_age, RngAfter(r, 6))],
                  !.sim_params_set = TRUE,
                  !.raised = "none",
                  !.params_end = RngAfter(r, 7), !.params_since_run = TRUE]

\* the class run_simulation picks by pricing_model_name.lower()
PricingModelOf(pricing_model_name) ==
  CASE pricing_model_name \in {"YieldSpace", "yieldspace"} -> "YieldsSpacev2"
    [] pricing_model_name \in {"YieldSpaceMinFee", "yieldspaceminfee"} -> "YieldsSpacev2_MinFee"
    [] pricing_model_name \in {"Element", "element"} -> "Element_Pricing_Model"

\* line 89: assert self.sim_params_set
AssertParamsSet_Skipped(sim) == TRUE

AssertParamsSet(sim) == sim.sim_params_set

\* lines 90-133: conversion rate, normalizing constant, time stretch, liquidity and
\* the new Market (the spot_price of lines 122-128 is computed and dropped)
MarketOfRun(sim) ==
  LET kw == SimKwargs
      pr == sim.params
      conversion_rate == around(FPow(ONE + pr.vault_apy, pr.init_vault_age), kw.precision)
      normalizing_constant == around(FPow(ONE + pr.vault_apy, pr.pool_age), kw.precision)
      pricing_model == PricingModelOf(sim.pricing_model_name)
      t_stretch == calc_time_stretch(pr.start_apy)
  IN  CHOOSE new_market \in { NewMarket(liq.x_reserves, liq.y_reserves, pr.fee_percent, StretchedTime(kw.days_until_maturity, t_stretch), liq.x_reserves + liq.y_reserves, pricing_model, conversion_rate, normalizing_constant) :
                                liq \in {calc_liquidity(pricing_model, pr.target_liquidity, kw.base_asset_price, pr.start_apy, kw.days_until_maturity, t_stretch, conversion_rate, normalizing_constant)} } : TRUE

\* the analysis_dict a run writes to when it begins afresh instead of appending
AnalysisDictOfRun_Fresh(sim) == << >>

\* the analysis_dict a run writes to: the one made by __init__
AnalysisDictOfRun(sim) == sim.analysis_dict

\* run_simulation up to the first pass of the trading loop; a day begins with
\* self.market.c += self.vault_apy / 100 / 365 * self.market.u
run_simulation_begin(sim, r, new_market) ==
  IF ~AssertParamsSet(sim) THEN [sim EXCEPT !.raised = "AssertionError"]
  ELSE \* the run begins
       [sim EXCEPT !.t_stretch = calc_time_stretch(sim.params.start_apy),
                   !.has_market = TRUE,
                   !.market = [new_market EXCEPT !.c = @ + FMul(FDiv(FDiv(sim.params.vault_apy, 100 * ONE), 365 * ONE), new_market.u)],
                   !.analysis_dict = AnalysisDictOfRun(sim),
                   !.pc = "trading", !.day = 0, !.day_trading_volume = 0, !.raised = "none",
                   !.run_seed = IF sim.params_since_run /\ r = sim.params_end /\ sim.runs = 0 THEN sim.params_seed ELSE -1,
                   !.trades = << >>]

\* update_analysis_dict: the row it appends to every column
Row(sim, m, trade_amount, token_in, token_out, q) ==
  [model_name |-> m.pricing_model, time_until_end |-> m.t, t_stretch |-> sim.t_stretch, target_liquidity |-> sim.params.target_liquidity,
   target_daily_volume |-> sim.params.target_daily_volume, start_apy |-> sim.params.start_apy,
   current_apy |-> apy(spot_price(m), SimKwargs.days_until_maturity - sim.day * ONE + ONE),
   fee_percent |-> sim.params.fee_percent, init_vault_age |-> sim.params.init_vault_age, vault_apy |-> sim.params.vault_apy, pool_age |-> sim.params.pool_age,
   x_reserves |-> m.x, y_reserves |-> m.y, total_supply |-> m.total_supply, token_in |-> token_in, token_out |-> token_out,
   direction |-> SimKwargs.trade_direction, trade_amount |-> trade_amount, conversion_rate |-> m.c, normalizing_constant |-> m.u,
   out_without_fee_slippage |-> q.without_fee_or_slippage, out_with_fee |-> q.with_fee, out_without_fee |-> q.without_fee, fee |-> q.fee,
   days_until_maturity |-> SimKwargs.days_until_maturity, num_trading_days |-> SimKwargs.num_trading_days, day |-> sim.day,
   spot_price |-> spot_price(m), num_orders |-> m.x_orders + m.y_orders]

\* line 146: the trade's size, drawn around a tenth of the day's target volume
TradeAmount(sim, r) == FDiv(normal(FDiv(sim.params.target_daily_volume, 10 * ONE), FDiv(FDiv(sim.params.target_daily_volume, 10 * ONE), 10 * ONE), r), SimKwargs.base_asset_price)

\* lines 154-163: the simulator after the swap returned quote q and left Market m;
\* a swap whose powers turn complex raises TypeError and ends the run
trade(sim, trade_amount, token_in, token_out, q, m) ==
  IF q.status # "real" \/ ~spot_price_ok(m) THEN [sim EXCEPT !.pc = "idle", !.raised = "TypeError"]
  ELSE [sim EXCEPT !.market = m,
                   !.analysis_dict = Append(@, Row(sim, m, trade_amount, token_in, token_out, q)),
                   !.trades = Append(@, << trade_amount, token_in >>),
                   !.day_trading_volume = @ + FMul(trade_amount, SimKwargs.base_asset_price)]

\* line 166 and the loop header: the tick that ends a day, then the next day or the end of the run
end_day(sim) ==
  LET ticked == tick(sim.market, SimKwargs.step_size)
  IN  IF sim.day + 1 < SimKwargs.num_trading_days
        THEN [sim EXCEPT !.market = [ticked EXCEPT !.c = @ + FMul(FDiv(FDiv(sim.params.vault_apy, 100 * ONE), 365 * ONE), ticked.u)], !.day = @ + 1, !.day_trading_volume = 0]
        ELSE [sim EXCEPT !.market = ticked, !.pc = "idle", !.runs = @ + 1, !.params_since_run = FALSE,
                         !.done_rows = sim.analysis_dict]

\* the simulators of the model
SimIds == {1, 2}

\* the most calls of set_sim_params, set_random_time and run_simulation a run of the model makes
MaxCalls == 4

\* the seed the simulators' caller passes to np.random.seed
Seeds == {6}

\* np.random.seed(seed) with no effect on the generator
SeedState_Unseeded(seed) == rng.state

\* the state np.random.seed(seed) puts the generator in
SeedState(seed) == seed % RNG_M

\* single-threaded: a call begins when no run_simulation is under way
NoRunUnderWay == \A i \in SimIds : sims[i].pc = "idle"

\* np.random.seed(seed), called by the simulators' caller
Reseed(seed) ==
  /\ NoRunUnderWay
  /\ calls < MaxCalls
  /\ rng # [state |-> SeedState(seed), seeded |-> seed]
  /\ rng' = [state |-> SeedState(seed), seeded |-> seed]
  /\ UNCHANGED << solver_vars, market_vars, fuzz, sims, calls, calc, hyperdrive, ext_vars >>

SetSimParams(i) ==
  /\ NoRunUnderWay
  /\ calls < MaxCalls
  /\ sims' = [sims EXCEPT ![i] = [set_sim_params(sims[i], rng.state) EXCEPT !.params_seed = rng.seeded]]
  /\ rng' = [state |-> RngAfter(rng.state, 7), seeded |-> -1]
  /\ calls' = calls + 1
  /\ UNCHANGED << solver_vars, market_vars, fuzz, calc, hyperdrive, ext_vars >>

\* set_random_time: np.random.randint(0, self.num_times), where num_times is
\* len(np.arange(t_min, t_max + step_size, step_size))
SetRandomTime(i) ==
  /\ NoRunUnderWay
  /\ calls < MaxCalls
  /\ sims' = [sims EXCEPT ![i].current_time_index = randint(0, ((SimKwargs.t_max + SimKwargs.step_size - SimKwargs.t_min) + SimKwargs.step_size - 1) \div SimKwargs.step_size, rng.state), ![i].raised = "none"]
  /\ rng' = [state |-> RngAfter(rng.state, 1), seeded |-> -1]
  /\ calls' = calls + 1
  /\ UNCHANGED << solver_vars, market_vars, fuzz, calc, hyperdrive, ext_vars >>

\* run_simulation is called: it fails its assertion, or runs up to the trading loop
RunSimulation(i) ==
  /\ NoRunUnderWay
  /\ calls < MaxCalls
  /\ \E new_market \in {MarketOfRun(sims[i])} :
       \E after \in {run_simulation_begin(sims[i], rng.state, new_market)} : sims' = [sims EXCEPT ![i] = after]
  /\ calls' = calls + 1
  /\ UNCHANGED << solver_vars, market_vars, fuzz, rng, calc, hyperdrive, ext_vars >>

\* while day_trading_volume < self.target_daily_volume: one trade
Trade(i) ==
  /\ sims[i].pc = "trading"
  /\ sims[i].day_trading_volume < sims[i].params.target_daily_volume
  /\ \E trade_amount \in {TradeAmount(sims[i], rng.state)}, token_index \in {randint(0, 2, NextRng(rng.state))} :
       \E token_in \in {SimKwargs.tokens[token_index + 1]}, token_out \in {SimKwargs.tokens[(1 - token_index) + 1]} :
         \E q \in {SwapQuote(sims[i].market, trade_amount, SimKwargs.trade_direction, token_in, token_out)} :
           \E m \in {IF q.status = "real" /\ SwapApplies(q.fee) THEN SwapUpdate(sims[i].market, trade_amount, SimKwargs.trade_direction, token_in, q) ELSE sims[i].market} :
             \E after \in {trade(sims[i], trade_amount, token_in, token_out, q, m)} : sims' = [sims EXCEPT ![i] = after]
  /\ rng' = [state |-> RngAfter(rng.state, 2), seeded |-> -1]
  /\ UNCHANGED << solver_vars, market_vars, fuzz, calls, calc, hyperdrive, ext_vars >>

\* the day's volume is reached
EndDay(i) ==
  /\ sims[i].pc = "trading"
  /\ sims[i].day_trading_volume >= sims[i].params.target_daily_volume
  /\ sims' = [sims EXCEPT ![i] = end_day(sims[i])]
  /\ UNCHANGED << solver_vars, market_vars, fuzz, rng, calls, calc, hyperdrive, ext_vars >>

(***************************************************************************)
(* checkpoint_bot.py and api.py: checkpoint ids and the calc_* methods of   *)
(* HyperdriveInterface                                                     *)
(***************************************************************************)

\* seconds between checkpoints of the deployed pool
CheckpointDuration == 4

\* the chain stops after this many blocks
MaxBlocks == 2

\* the timestamp's offset in its checkpoint, where the checkpoint's start belongs
checkpoint_time_Elapsed(timestamp, checkpoint_duration) == timestamp % checkpoint_duration

\* checkpoint_bot.py line 105
checkpoint_time(timestamp, checkpoint_duration) == timestamp - (timestamp % checkpoint_duration)

\* _mock_contract._calc_checkpoint_id
calc_checkpoint_id_(checkpoint_duration, block_timestamp) == block_timestamp - (block_timestamp % checkpoint_duration)

\* a _calc_* function of _mock_contract: a value that depends on the function and
\* on the pool state it is handed, and on nothing else
MockContractCalc(fn, pool_state) == [helper |-> fn, of |-> pool_state]

\* an argument left out; one that is given is [value |-> n] or a pool state
None == [none |-> TRUE]

\* get_hyperdrive_state(block): the pool as of a block of the chain
get_hyperdrive_state(block_number, block_time) ==
  [block_number |-> block_number, block_time |-> block_time,
   pool_config |-> [checkpoint_duration |-> CheckpointDuration, position_duration |-> 2 * CheckpointDuration],
   checkpoint_id |-> calc_checkpoint_id_(CheckpointDuration, block_time)]

\* HyperdriveInterface.__init__ on a chain at its first block, and a checkpoint bot
\* that has not polled yet
NewInterface(block_time) ==
  [block_number |-> 0, block_time |-> block_time, checkpoints |-> {},
   current_pool_state_ |-> get_hyperdrive_state(0, block_time), last_state_block_number |-> 0,
   snapshots |-> {get_hyperdrive_state(0, block_time)},
   call |-> [fn |-> "none"],
   bot |-> [polled |-> -1]]

\* a check that never finds the cache behind
ensure_current_state_Never(h) == h

\* _ensure_current_state: the interface with its cache brought up to the chain
ensure_current_state(h) ==
  IF h.block_number > h.last_state_block_number
    THEN [h EXCEPT !.current_pool_state_ = get_hyperdrive_state(h.block_number, h.block_time),
                   !.last_state_block_number = h.block_number,
                   !.snapshots = @ \cup {get_hyperdrive_state(h.block_number, h.block_time)}]
    ELSE h

\* what a call left behind: its arguments, the pool state handed to the helper, the
\* result, whether the current_pool_state property was read and whether that read
\* replaced the cache
CallRecord(h, after, fn, pool_state, passed, ret, read_current) ==
  [fn |-> fn, pool_state |-> pool_state, passed |-> passed, ret |-> ret, read_current |-> read_current,
   refreshed |-> read_current /\ after.last_state_block_number # h.last_state_block_number]

\* interface.calc_position_duration_in_years(pool_state), lines 569-571: the
\* default is filled in, and the helper is handed self.current_pool_state whatever
\* was supplied
calc_position_duration_in_years(pool_state) ==
  /\ \E after \in {ensure_current_state(hyperdrive)} :
       hyperdrive' = [after EXCEPT !.call = CallRecord(hyperdrive, after, "calc_position_duration_in_years", pool_state, after.current_pool_state_,
                                                        MockContractCalc("calc_position_duration_in_years", after.current_pool_state_), TRUE)]
  /\ UNCHANGED << solver_vars, market_vars, fuzz, sim_vars, calc, ext_vars >>

\* interface.calc_fixed_rate(pool_state), calc_spot_price, calc_max_long,
\* calc_max_short: the helper is handed pool_state, which is
\* self.current_pool_state when none was supplied
calc_of_pool_state(fn, pool_state) ==
  /\ IF pool_state = None
       THEN \E after \in {ensure_current_state(hyperdrive)} :
              hyperdrive' = [after EXCEPT !.call = CallRecord(hyperdrive, after, fn, pool_state, after.current_pool_state_, MockContractCalc(fn, after.current_pool_state_), TRUE)]
       ELSE hyperdrive' = [hyperdrive EXCEPT !.call = CallRecord(hyperdrive, hyperdrive, fn, pool_state, pool_state, MockContractCalc(fn, pool_state), FALSE)]
  /\ UNCHANGED << solver_vars, market_vars, fuzz, sim_vars, calc, ext_vars >>

\* interface.calc_checkpoint_id(checkpoint_duration, block_timestamp): each
\* argument left out is read from self.current_pool_state
calc_checkpoint_id(checkpoint_duration, block_timestamp) ==
  /\ LET read == checkpoint_duration = None \/ block_timestamp = None
         after == IF read THEN ensure_current_state(hyperdrive) ELSE hyperdrive
         d == IF checkpoint_duration = None THEN after.current_pool_state_.pool_config.checkpoint_duration ELSE checkpoint_duration.value
         ts == IF block_timestamp = None THEN after.current_pool_state_.block_time ELSE block_timestamp.value
     IN  hyperdrive' = [after EXCEPT !.call = [fn |-> "calc_checkpoint_id", checkpoint_duration |-> d, block_timestamp |-> ts,
                                               ret |-> calc_checkpoint_id_(d, ts), read_current |-> read,
                                               refreshed |-> read /\ after.last_state_block_number # hyperdrive.last_state_block_number]]
  /\ UNCHANGED << solver_vars, market_vars, fuzz, sim_vars, calc, ext_vars >>

\* the calc_* methods that lines 602-645 and 882-926 define
PoolStateCalcs == {"calc_fixed_rate", "calc_spot_price", "calc_max_long", "calc_max_short"}

\* the chain mines a block
MineBlock(seconds) ==
  /\ hyperdrive.block_number < MaxBlocks
  /\ hyperdrive' = [hyperdrive EXCEPT !.block_number = @ + 1, !.block_time = @ + seconds]
  /\ UNCHANGED << solver_vars, market_vars, fuzz, sim_vars, calc, ext_vars >>

\* a bot that does not wait
Waited_Always(checkpoint_portion_elapsed, checkpoint_duration) == TRUE

\* checkpoint_portion_elapsed >= CHECKPOINT_WAITING_PERIOD * checkpoint_duration,
\* the waiting period being one half
Waited(checkpoint_portion_elapsed, checkpoint_duration) == 2 * checkpoint_portion_elapsed >= checkpoint_duration

\* one turn of the checkpoint bot's loop, lines 100-134: it reads the latest block,
\* mints the checkpoint of its time once half of the checkpoint has gone by and no
\* checkpoint exists, and works out how long to sleep (here in half seconds)
CheckpointBotPoll ==
  /\ hyperdrive.bot.polled # hyperdrive.block_number
  /\ LET timestamp == hyperdrive.block_time
         checkpoint_duration == hyperdrive.current_pool_state_.pool_config.checkpoint_duration
         checkpoint_portion_elapsed == timestamp % checkpoint_duration
         id == checkpoint_time(timestamp, checkpoint_duration)
         waited == Waited(checkpoint_portion_elapsed, checkpoint_duration)
         submit == waited /\ id \notin hyperdrive.checkpoints
     IN  hyperdrive' = [hyperdrive EXCEPT
           !.checkpoints = IF submit THEN @ \cup {id} ELSE @,
           !.bot = [polled |-> hyperdrive.block_number, timestamp |-> timestamp, checkpoint_duration |-> checkpoint_duration,
                    checkpoint_portion_elapsed |-> checkpoint_portion_elapsed, checkpoint_time |-> id, submitted |-> submit,
                    sleep_duration |-> IF waited THEN 3 * checkpoint_duration - 2 * checkpoint_portion_elapsed
                                       ELSE checkpoint_duration - 2 * checkpoint_portion_elapsed]]
  /\ UNCHANGED << solver_vars, market_vars, fuzz, sim_vars, calc, ext_vars >>

(***************************************************************************)
(* Calls of the pricing models' static methods                             *)
(***************************************************************************)

\* no call was made yet
NoCalc == [op |-> "none"]

\* pricing_model.calc_liquidity(...), and calc_apy_from_reserves on what it returned,
\* as line 326 calls it
CalcLiquidity(pricing_model, target_liquidity, market_price, apy_, days_until_maturity, time_stretch, c, u) ==
  /\ calc.op = "none"
  /\ \E ret \in {calc_liquidity(pricing_model, target_liquidity, market_price, apy_, days_until_maturity, time_stretch, c, u)} :
       \E t \in {StretchedTime(days_until_maturity, time_stretch)} :
         \E actual_apy \in {IF calc_spot_price_ok(pricing_model, ret.x_reserves, ret.y_reserves, ret.x_reserves + ret.y_reserves, t, c, u)
                              THEN calc_apy_from_reserves(pricing_model, ret.x_reserves, ret.y_reserves, ret.x_reserves + ret.y_reserves, t, time_stretch, c, u)
                              ELSE -1} :
           calc' = [op |-> "calc_liquidity", pricing_model |-> pricing_model, target_liquidity |-> target_liquidity, market_price |-> market_price, apy |-> apy_,
                    days_until_maturity |-> days_until_maturity, time_stretch |-> time_stretch, c |-> c, u |-> u, ret |-> ret, actual_apy |-> actual_apy]
  /\ UNCHANGED << solver_vars, market_vars, fuzz, sim_vars, hyperdrive, ext_vars >>

\* one of the four liquidity-provider functions, called with amounts a (of x, or of
\* LP tokens) and b (of y)
LpCall(fn, a, b, x_reserves, y_reserves, total_supply) ==
  /\ calc.op = "none"
  /\ fn \in {"calc_tokens_in_given_lp_out", "calc_tokens_out_for_lp_in"} => b = 0
  /\ \E ret \in {CASE fn = "calc_tokens_in_given_lp_out" -> calc_tokens_in_given_lp_out(a, x_reserves, y_reserves, total_supply)
                   [] fn = "calc_lp_out_given_tokens_in" -> calc_lp_out_given_tokens_in(a, b, x_reserves, y_reserves, total_supply)
                   [] fn = "calc_lp_in_given_tokens_out" -> calc_lp_in_given_tokens_out(a, b, x_reserves, y_reserves, total_supply)
                   [] fn = "calc_tokens_out_for_lp_in" -> calc_tokens_out_for_lp_in(a, x_reserves, y_reserves, total_supply)} :
       calc' = [op |-> fn, a |-> a, b |-> b, x_reserves |-> x_reserves, y_reserves |-> y_reserves, total_supply |-> total_supply, ret |-> ret]
  /\ UNCHANGED << solver_vars, market_vars, fuzz, sim_vars, hyperdrive, ext_vars >>

(***************************************************************************)
(* conversions.py: hypertypes structures and their FixedPoint mirrors.     *)
(* A name is the sequence of its characters; a value carries its Python    *)
(* type as kind.                                                           *)
(***************************************************************************)

UpperCase == << "A", "B", "C", "D", "E", "F", "G", "H", "I", "J", "K", "L", "M", "N", "O", "P", "Q", "R", "S", "T", "U", "V", "W", "X", "Y", "Z" >>

LowerCase == << "a", "b", "c", "d", "e", "f", "g", "h", "i", "j", "k", "l", "m", "n", "o", "p", "q", "r", "s", "t", "u", "v", "w", "x", "y", "z" >>

\* [A-Z] of the regular expression of line 15
IsUpper(ch) == \E i \in 1..Len(UpperCase) : UpperCase[i] = ch

\* [a-z] of the regular expression of line 21
IsLower(ch) == \E i \in 1..Len(LowerCase) : LowerCase[i] = ch

\* str.lower() of one character
Lower(ch) == IF IsUpper(ch) THEN LowerCase[CHOOSE i \in 1..Len(UpperCase) : UpperCase[i] = ch] ELSE ch

\* str.upper() of one character
Upper(ch) == IF IsLower(ch) THEN UpperCase[CHOOSE i \in 1..Len(LowerCase) : LowerCase[i] = ch] ELSE ch

RECURSIVE CamelToSnakeFrom(_, _)
\* re.sub(r"(?<!^)(?=[A-Z])", "_", s).lower() from position i on
CamelToSnakeFrom(s, i) ==
  IF i > Len(s) THEN << >>
  ELSE (IF i > 1 /\ IsUpper(s[i]) THEN << "_" >> ELSE << >>) \o << Lower(s[i]) >> \o CamelToSnakeFrom(s, i + 1)

camel_to_snake(snake_string) == CamelToSnakeFrom(snake_string, 1)

RECURSIVE UnderscoresToUpperFrom(_, _)
\* re.sub(r"_([a-z])", lambda x: x.group(1).upper(), s) from position i on
UnderscoresToUpperFrom(s, i) ==
  IF i > Len(s) THEN << >>
  ELSE IF s[i] = "_" /\ i < Len(s) /\ IsLower(s[i + 1]) THEN << Upper(s[i + 1]) >> \o UnderscoresToUpperFrom(s, i + 2)
  ELSE << s[i] >> \o UnderscoresToUpperFrom(s, i + 1)

snake_to_camel(snake_string) ==
  LET camel_string == UnderscoresToUpperFrom(snake_string, 1)
  IN  IF camel_string = << >> THEN camel_string ELSE << Lower(camel_string[1]) >> \o SubSeq(camel_string, 2, Len(camel_string))

\* the names of lines 124-129 and 158-163, in camelCase
FixedPointKeys == {<< "i", "n", "i", "t", "i", "a", "l", "S", "h", "a", "r", "e", "P", "r", "i", "c", "e" >>, << "m", "i", "n", "i", "m", "u", "m", "S", "h", "a", "r", "e", "R", "e", "s", "e", "r", "v", "e", "s" >>, << "m", "i", "n", "i", "m", "u", "m", "T", "r", "a", "n", "s", "a", "c", "t", "i", "o", "n", "A", "m", "o", "u", "n", "t" >>, << "t", "i", "m", "e", "S", "t", "r", "e", "t", "c", "h" >>}

Fees_ == << "f", "e", "e", "s" >>

\* the fields of the hypertypes dataclasses: those PoolConfig(...) is given in
\* lines 174-190, sharePrice and exposure of a Checkpoint, and reserves of a PoolInfo
FieldsOf(cls) ==
  CASE cls = "PoolInfo" -> {<< "s", "h", "a", "r", "e", "R", "e", "s", "e", "r", "v", "e", "s" >>, << "s", "h", "a", "r", "e", "A", "d", "j", "u", "s", "t", "m", "e", "n", "t" >>, << "b", "o", "n", "d", "R", "e", "s", "e", "r", "v", "e", "s" >>, << "l", "p", "T", "o", "t", "a", "l", "S", "u", "p", "p", "l", "y" >>}
    [] cls = "Checkpoint" -> {<< "s", "h", "a", "r", "e", "P", "r", "i", "c", "e" >>, << "e", "x", "p", "o", "s", "u", "r", "e" >>}
    [] cls = "PoolConfig" -> FixedPointKeys \cup {Fees_} \cup
         {<< "b", "a", "s", "e", "T", "o", "k", "e", "n" >>,
          << "l", "i", "n", "k", "e", "r", "F", "a", "c", "t", "o", "r", "y" >>,
          << "l", "i", "n", "k", "e", "r", "C", "o", "d", "e", "H", "a", "s", "h" >>,
          << "p", "r", "e", "c", "i", "s", "i", "o", "n", "T", "h", "r", "e", "s", "h", "o", "l", "d" >>,
          << "p", "o", "s", "i", "t", "i", "o", "n", "D", "u", "r", "a", "t", "i", "o", "n" >>,
          << "c", "h", "e", "c", "k", "p", "o", "i", "n", "t", "D", "u", "r", "a", "t", "i", "o", "n" >>,
          << "g", "o", "v", "e", "r", "n", "a", "n", "c", "e" >>,
          << "f", "e", "e", "C", "o", "l", "l", "e", "c", "t", "o", "r" >>}
    [] cls = "Fees" -> {<< "c", "u", "r", "v", "e" >>, << "f", "l", "a", "t" >>, << "g", "o", "v", "e", "r", "n", "a", "n", "c", "e" >>}

\* the fields of the FixedPoint mirrors PoolInfoFP, CheckpointFP and PoolConfigFP:
\* the same fields in snake_case
MirrorFieldsOf(cls) ==
  {camel_to_snake(n) : n \in FieldsOf(CASE cls = "PoolInfoFP" -> "PoolInfo" [] cls = "CheckpointFP" -> "Checkpoint" [] cls = "PoolConfigFP" -> "PoolConfig")}

\* values by Python type
IntValue(n) == [kind |-> "int", v |-> n]

FixedPoint(scaled_value) == [kind |-> "FixedPoint", scaled_value |-> scaled_value]

DataclassValue(cls, fields) == [kind |-> "dataclass", cls |-> cls, fields |-> fields]

DictValue(items) == [kind |-> "dict", items |-> items]

TupleValue(items) == [kind |-> "tuple", items |-> items]

\* what a conversion gives: a value, or the exception it raised
Returned(value) == [raised |-> "none", value |-> value]

RaisedError(error) == [raised |-> error, value |-> IntValue(0)]

\* a dataclass's constructor called with keyword arguments
Construct(cls, kwargs) ==
  IF DOMAIN kwargs = (IF cls \in {"PoolInfoFP", "CheckpointFP", "PoolConfigFP"} THEN MirrorFieldsOf(cls) ELSE FieldsOf(cls)) THEN Returned(DataclassValue(cls, kwargs)) ELSE RaisedError("TypeError")

\* dataclasses.asdict: the fields by name, a field that is a dataclass as a dict
asdict(obj) == [key \in DOMAIN obj.fields |-> IF obj.fields[key].kind = "dataclass" THEN DictValue(obj.fields[key].fields) ELSE obj.fields[key]]

\* {camel_to_snake(key): ... for key, value in d.items()}
SnakeKeys(d) == [key \in {camel_to_snake(k) : k \in DOMAIN d} |-> d[CHOOSE k \in DOMAIN d : camel_to_snake(k) = key]]

\* {snake_to_camel(key): ... for key, value in d.items()}
CamelKeys(d) == [key \in {snake_to_camel(k) : k \in DOMAIN d} |-> d[CHOOSE k \in DOMAIN d : snake_to_camel(k) = key]]

\* value.scaled_value of every value can be read
AllFixedPoint(d) == \A key \in DOMAIN d : d[key].kind = "FixedPoint"

\* pool_info_to_fixedpoint and checkpoint_to_fixedpoint
to_fixedpoint(cls, obj) ==
  LET d == SnakeKeys(asdict(obj))
  IN  Construct(cls, [key \in DOMAIN d |-> FixedPoint(d[key].v)])

\* fixedpoint_to_pool_info and fixedpoint_to_checkpoint
from_fixedpoint(cls, obj) ==
  LET d == CamelKeys(asdict(obj))
  IN  IF AllFixedPoint(d) THEN Construct(cls, [key \in DOMAIN d |-> IntValue(d[key].scaled_value)]) ELSE RaisedError("AttributeError")

\* lines 134-138: the fees as a tuple of three FixedPoint
FeesToFixedPoint(fees) ==
  TupleValue(<< FixedPoint(fees.items[<< "c", "u", "r", "v", "e" >>].v), FixedPoint(fees.items[<< "f", "l", "a", "t" >>].v), FixedPoint(fees.items[<< "g", "o", "v", "e", "r", "n", "a", "n", "c", "e" >>].v) >>)

pool_config_to_fixedpoint(hypertypes_pool_config) ==
  LET dict_pool_config == SnakeKeys(asdict(hypertypes_pool_config))
  IN  Construct("PoolConfigFP",
        [key \in DOMAIN dict_pool_config |->
           IF key \in {camel_to_snake(k) : k \in FixedPointKeys} THEN FixedPoint(dict_pool_config[key].v)
           ELSE IF key = Fees_ THEN FeesToFixedPoint(dict_pool_config[key])
           ELSE dict_pool_config[key]])

\* lines 157-191: dict_pool_config[key]["curve"] needs the fees to be a dict
fixedpoint_to_pool_config(fixedpoint_pool_config) ==
  LET dict_pool_config == CamelKeys(asdict(fixedpoint_pool_config))
      fees == dict_pool_config[Fees_]
  IN  IF \E key \in FixedPointKeys \cap DOMAIN dict_pool_config : dict_pool_config[key].kind # "FixedPoint" THEN RaisedError("AttributeError")
      ELSE IF Fees_ \in DOMAIN dict_pool_config /\ fees.kind # "dict" THEN RaisedError("TypeError")
      ELSE IF FieldsOf("PoolConfig") \ DOMAIN dict_pool_config # {} THEN RaisedError("KeyError")
      ELSE Returned(DataclassValue("PoolConfig",
             [key \in FieldsOf("PoolConfig") |->
                IF key \in FixedPointKeys THEN IntValue(dict_pool_config[key].scaled_value)
                ELSE IF key = Fees_ THEN DataclassValue("Fees", [k \in FieldsOf("Fees") |-> IntValue(fees.items[k].scaled_value)])
                ELSE dict_pool_config[key]]))

\* a conversion to FixedPoint and, if it returned, back
ConvertAndBack(cls, obj) ==
  /\ conv.op = "none"
  /\ \E fp \in {IF cls = "PoolConfig" THEN pool_config_to_fixedpoint(obj) ELSE to_fixedpoint(IF cls = "PoolInfo" THEN "PoolInfoFP" ELSE "CheckpointFP", obj)} :
       \E back \in {IF fp.raised # "none" THEN fp
                    ELSE IF cls = "PoolConfig" THEN fixedpoint_to_pool_config(fp.value)
                    ELSE from_fixedpoint(cls, fp.value)} :
         conv' = [op |-> "round trip", cls |-> cls, obj |-> obj, fp |-> fp, back |-> back]
  /\ UNCHANGED << solver_vars, market_vars, fuzz, sim_vars, calc, hyperdrive, agent, arb >>

(***************************************************************************)
(* multi_trade_per_block_test.py: an agent driven until its policy is done *)
(***************************************************************************)

\* init_agent(..., policy=MultiTradePolicy): counter = 0, nothing traded yet
NewAgent ==
  [counter |-> 0, policy_done_trading |-> FALSE, trade_events |-> << >>, returned |-> << >>, action_calls |-> 0, calls_after_done |-> 0,
   raised |-> "none", block_number |-> 0]

\* MultiTradePolicy.action: the trades, done_trading and the counter afterwards; the
\* third call raises
action(counter) ==
  CASE counter = 0 -> [raised |-> "none", action_list |-> << "AddLiquidity" >>, done_trading |-> FALSE, counter |-> counter + 1]
    [] counter = 1 -> [raised |-> "none", action_list |-> << "AddLiquidity", "OpenLong", "OpenShort" >>, done_trading |-> TRUE, counter |-> counter + 1]
    [] OTHER -> [raised |-> "AssertionError", action_list |-> << >>, done_trading |-> FALSE, counter |-> counter]

\* a loop that goes on whatever the policy said
KeepTrading_Always(a) == TRUE

\* while not agent.policy_done_trading
KeepTrading(a) == ~a.policy_done_trading

\* the orders in which n trades sent together can be mined
Orders(n) == {f \in [1..n -> 1..n] : \A i \in 1..n : \A j \in 1..n : i # j => f[i] # f[j]}

\* how many blocks of other senders can come before a trade's block
BlockGaps == {0, 1, 2}

\* agent.execute_policy_action(): action() is called once, every trade of its list
\* is sent and leaves one event in the block that mined it, and the agent remembers
\* done_trading
execute_policy_action(a, order, gaps) ==
  LET ret == action(a.counter)
      n == Len(ret.action_list)
      block(i) == a.block_number + i + gaps[i]
      called == [a EXCEPT !.action_calls = @ + 1, !.calls_after_done = @ + (IF a.policy_done_trading THEN 1 ELSE 0)]
  IN  IF ret.raised # "none" THEN [called EXCEPT !.raised = ret.raised]
      ELSE [called EXCEPT !.counter = ret.counter,
                          !.returned = @ \o ret.action_list,
                          !.trade_events = @ \o [i \in 1..n |-> [event_type |-> ret.action_list[order[i]], block_number |-> block(i)]],
                          !.block_number = IF n = 0 THEN @ ELSE block(n),
                          !.policy_done_trading = ret.done_trading]

\* one pass of the loop of lines 93-94
ExecutePolicyAction ==
  /\ agent.raised = "none"
  /\ KeepTrading(agent)
  /\ \E n \in {Len(action(agent.counter).action_list)} :
       \E order \in Orders(n), gaps \in [1..n -> BlockGaps] :
         /\ \A i \in 1..(n - 1) : gaps[i] <= gaps[i + 1]
         /\ agent' = execute_policy_action(agent, order, gaps)
  /\ UNCHANGED << solver_vars, market_vars, fuzz, sim_vars, calc, hyperdrive, conv, arb >>

\* agent.get_trade_events() after the loop, lines 104-110
GetTradeEvents ==
  /\ agent.raised = "none"
  /\ ~KeepTrading(agent)
  /\ ~("checked" \in DOMAIN agent)
  /\ agent' = [fld \in DOMAIN agent \cup {"checked"} |->
                 IF fld = "checked"
                   THEN /\ Len(agent.trade_events) > 0
                        /\ agent.trade_events[1].event_type = "AddLiquidity"
                        /\ \A t \in {"AddLiquidity", "OpenLong", "OpenShort"} : \E i \in 2..Len(agent.trade_events) : agent.trade_events[i].event_type = t
                   ELSE agent[fld]]
  /\ UNCHANGED << solver_vars, market_vars, fuzz, sim_vars, calc, hyperdrive, conv, arb >>

(***************************************************************************)
(* lpandarb.py: LPandArb.action.  A wallet's longs and shorts are the items *)
(* of its dicts in their order, << maturity_time, balance >>; a returned    *)
(* list holds one record per Trade.                                        *)
(***************************************************************************)

\* LPandArb.Config: its defaults
PolicyConfig == [lp_portion |-> HALF, high_fixed_rate_thresh |-> ONE \div 100, low_fixed_rate_thresh |-> ONE \div 100, rate_slippage |-> ONE \div 100]

\* LPandArb.__init__(budget)
NewLPandArb(budget) ==
  [policy_config |-> PolicyConfig, arb_amount |-> FMul(ONE - PolicyConfig.lp_portion, budget), lp_amount |-> FMul(PolicyConfig.lp_portion, budget), minimum_trade_amount |-> 10 * ONE]

\* Trade(market_action=HyperdriveMarketAction(action_type, trade_amount, maturity_time)),
\* maturity_time -1 where the code passes none
HyperdriveTrade(action_type, trade_amount, maturity_time) == [action_type |-> action_type, trade_amount |-> trade_amount, maturity_time |-> maturity_time]

\* interface.fixed_rate: the pool's rate at its effective share reserves
fixed_rate(info, cfg) == calc_apr_local(info.shareReserves, info.shareAdjustment, info.bondReserves, cfg.initialSharePrice, cfg.positionDuration, cfg.timeStretch)

RECURSIVE CloseMatured(_, _, _, _)
\* 'Close longs if matured' and 'Close shorts if matured': the whole balance of every
\* position whose maturity_time is before the block time, from item i on
CloseMatured(positions, action_type, current_block_time, i) ==
  IF i > Len(positions) THEN << >>
  ELSE (IF positions[i][1] < current_block_time THEN << HyperdriveTrade(action_type, positions[i][2], positions[i][1]) >> ELSE << >>)
         \o CloseMatured(positions, action_type, current_block_time, i + 1)

RECURSIVE Reduce(_, _, _, _)
\* 'Start by reducing shorts' and 'Start by reducing longs': every position is closed
\* by min(balance, bonds_needed), which comes off bonds_needed, from item i on
Reduce(positions, action_type, needed, i) ==
  IF i > Len(positions) THEN [action_list |-> << >>, bonds_needed |-> needed]
  ELSE LET reduce_amount == Min(positions[i][2], needed)
           rest == Reduce(positions, action_type, needed - reduce_amount, i + 1)
       IN  [action_list |-> << HyperdriveTrade(action_type, reduce_amount, positions[i][1]) >> \o rest.action_list, bonds_needed |-> rest.bonds_needed]

high_fixed_rate_detected(policy, iface) == iface.fixed_rate >= iface.variable_rate + policy.policy_config.high_fixed_rate_thresh

low_fixed_rate_detected(policy, iface) == iface.fixed_rate <= iface.variable_rate - policy.policy_config.low_fixed_rate_thresh

\* the new long of lines 582-606 is opened, which needs get_shares_in_for_bonds_out not to raise
OpensLong(policy, iface, wallet, solved) ==
  /\ high_fixed_rate_detected(policy, iface)
  /\ wallet.balance >= policy.minimum_trade_amount
  /\ Reduce(wallet.shorts, "CLOSE_SHORT", -solved[2], 1).bonds_needed > iface.pool_config.minimumTransactionAmount

\* LPandArb.action(interface, wallet): the action_list it returns, solved being what
\* calc_reserves_to_hit_target_rate returned to it
LPandArb_action(policy, iface, wallet, solved) ==
  LET info == iface.pool_info
      cfg == iface.pool_config
      add_liquidity == IF wallet.lp_tokens = 0 THEN << HyperdriveTrade("ADD_LIQUIDITY", policy.lp_amount, -1) >> ELSE << >>
      we_have_money == wallet.balance >= policy.minimum_trade_amount
      matured == CloseMatured(wallet.longs, "CLOSE_LONG", iface.current_block_time, 1) \o CloseMatured(wallet.shorts, "CLOSE_SHORT", iface.current_block_time, 1)
      shorts == Reduce(wallet.shorts, "CLOSE_SHORT", -solved[2], 1)
      max_long_shares == get_shares_in_for_bonds_out(info.bondReserves, info.sharePrice, cfg.initialSharePrice, info.shareReserves, iface.max_long, cfg.timeStretch, cfg.curveFee, cfg.governanceFee)[1]
      high == IF high_fixed_rate_detected(policy, iface)
                THEN shorts.action_list
                       \o (IF we_have_money /\ shorts.bonds_needed > cfg.minimumTransactionAmount
                             THEN << HyperdriveTrade("OPEN_LONG", FMul(Min(solved[1], max_long_shares), info.sharePrice), -1) >>
                             ELSE << >>)
                ELSE << >>
      longs == Reduce(wallet.longs, "CLOSE_LONG", solved[2], 1)
      low == IF low_fixed_rate_detected(policy, iface)
               THEN longs.action_list
                      \o (IF we_have_money /\ longs.bonds_needed > cfg.minimumTransactionAmount
                            THEN << HyperdriveTrade("OPEN_SHORT", Min(longs.bonds_needed, iface.max_short), -1) >>
                            ELSE << >>)
               ELSE << >>
  IN  add_liquidity \o matured \o high \o low

\* the budget the policy is made with
Budget == 100 * ONE

\* the call has begun and has not returned
ArbUnderWay == arb.op = "called"

\* the call is at the point where it calls calc_reserves_to_hit_target_rate
ArbNeedsSolver == high_fixed_rate_detected(arb.policy, arb.interface) \/ low_fixed_rate_detected(arb.policy, arb.interface)

\* LPandArb.action is called with a wallet, on an interface at some block time and
\* variable rate
ArbBegin(wallet, current_block_time, variable_rate, max_long, max_short) ==
  /\ arb.op = "none"
  /\ pc = "idle"
  /\ arb' = [op |-> "called", policy |-> NewLPandArb(Budget), wallet |-> wallet,
             interface |-> [pool_info |-> heap[IFACE], pool_config |-> iface_pool_config, fixed_rate |-> fixed_rate(heap[IFACE], iface_pool_config),
                            variable_rate |-> variable_rate, current_block_time |-> current_block_time, max_long |-> max_long, max_short |-> max_short]]
  /\ UNCHANGED << solver_vars, market_vars, fuzz, sim_vars, calc, hyperdrive, conv, agent >>

\* lines 559-562 and 599-602: the call of calc_reserves_to_hit_target_rate
ArbSolve ==
  /\ ArbUnderWay
  /\ pc = "idle"
  /\ ArbNeedsSolver
  /\ Call(arb.interface.variable_rate, FALSE)

\* the call returns its list, or raises what the solver or the pricing of the new
\* long raised
ArbReturn ==
  /\ ArbUnderWay
  /\ IF ArbNeedsSolver THEN pc \in {"done", "raised"} ELSE pc = "idle"
  /\ \E solved \in {<< total_shares_needed, total_bonds_needed >>} :
       LET info == arb.interface.pool_info
           cfg == arb.interface.pool_config
           raises == \/ pc = "raised"
                     \/ /\ OpensLong(arb.policy, arb.interface, arb.wallet, solved)
                        /\ ~get_shares_in_for_bonds_out_ok(info.bondReserves, info.sharePrice, cfg.initialSharePrice, info.shareReserves, arb.interface.max_long, cfg.timeStretch, cfg.curveFee, cfg.governanceFee)
       IN  arb' = [fld \in DOMAIN arb \cup {"action_list", "solved"} |->
                     CASE fld = "op" -> IF raises THEN "raised" ELSE "returned"
                       [] fld = "action_list" -> IF raises THEN << >> ELSE LPandArb_action(arb.policy, arb.interface, arb.wallet, solved)
                       [] fld = "solved" -> solved
                       [] OTHER -> arb[fld]]
  /\ UNCHANGED << solver_vars, market_vars, fuzz, sim_vars, calc, hyperdrive, conv, agent >>

\* positions of two maturities: none, one smaller than any need, one larger, both
Positions == {<< >>, << << 1, ONE \div 100 >> >>, << << 1, 20 * ONE >>, << 3, ONE \div 100 >> >>}

\* wallets with and without LP tokens, money, longs and shorts
Wallets ==
  { [lp_tokens |-> w[1], balance |-> w[2], longs |-> ls, shorts |-> ss] : w \in {<< 0, 50 * ONE >>, << ONE, 5 * ONE >>}, ls \in Positions, ss \in Positions }

\* no conversion, no agent and no arbitrage call
ExtInit ==
  /\ conv = [op |-> "none"]
  /\ agent = [op |-> "none"]
  /\ arb = [op |-> "none"]

\* the auxiliary state of a run that uses none of it
AuxInit ==
  /\ fuzz = NoFuzz
  /\ sims = [i \in SimIds |-> NewSimulator("Element")]
  /\ rng = [state |-> 0, seeded |-> -1]
  /\ calls = 0
  /\ calc = NoCalc
  /\ hyperdrive = NewInterface(0)
  /\ ExtInit

SolverInit ==
  /\ iface_pool_config \in Configs
  /\ \E info \in PoolInfos(iface_pool_config) : heap = [o \in {IFACE} |-> info] /\ entry_info = info
  /\ pc = "idle"
  /\ target_rate = 0
  /\ pool_info = IFACE
  /\ pool_config = iface_pool_config
  /\ iteration = 0
  /\ predicted_rate = 0
  /\ total_shares_needed = 0
  /\ total_bonds_needed = 0
  /\ bonds_needed = 0
  /\ prev_bonds_needed = 0
  /\ exit_by = "none"
  /\ prev_call = NoCall
  /\ market = NoMarket
  /\ last = NoSwap
  /\ AuxInit

SolverStep == LoopTest \/ IterateShort \/ IterateLong \/ IterateRaises

SolverNext ==
  \/ \E target \in TargetRates : Call(target, FALSE)
  \/ LoopTest
  \/ IterateShort
  \/ IterateLong
  \/ IterateRaises
  \/ \E info \in PoolInfos(iface_pool_config) : Refetch(info)

\* two calls in a row on one pool, the first call's result remembered
HistoryInit ==
  /\ SolverInit
  /\ iface_pool_config.positionDuration = YEAR
  /\ iface_pool_config.curveFee = 0
  /\ heap[IFACE].shareReserves = ONE

HistoryNext ==
  \/ \E target \in TargetRates : Call(target, TRUE)
  \/ LoopTest
  \/ IterateShort
  \/ IterateLong
  \/ IterateRaises

HistorySpec == HistoryInit /\ [][HistoryNext]_vars

\* the simulator's Market under swaps, ticks and zero-fee round trips; no solver call runs
MarketInit ==
  /\ market \in Markets
  /\ last = NoSwap
  /\ iface_pool_config = CHOOSE cfg \in Configs : cfg.positionDuration = YEAR /\ cfg.curveFee = 0
  /\ heap = [o \in {IFACE} |-> CHOOSE info \in PoolInfos(iface_pool_config) : info.shareAdjustment = 0]
  /\ entry_info = heap[IFACE]
  /\ pc = "idle"
  /\ target_rate = 0
  /\ pool_info = IFACE
  /\ pool_config = iface_pool_config
  /\ iteration = 0
  /\ predicted_rate = 0
  /\ total_shares_needed = 0
  /\ total_bonds_needed = 0
  /\ bonds_needed = 0
  /\ prev_bonds_needed = 0
  /\ exit_by = "none"
  /\ prev_call = NoCall
  /\ AuxInit

MarketNext ==
  \/ \E amount \in Amounts, direction \in {"in", "out"}, token_in \in {"base", "fyt"} : Swap(amount, direction, token_in)
  \/ \E step_size \in Steps : Tick(step_size)
  \/ \E in_ \in Amounts, token_out \in {"base", "fyt"} : RoundTrip(in_, token_out)
  \/ \E bonds \in Amounts, fn \in {"get_shares_in_for_bonds_out", "get_shares_out_for_bonds_in"} : LocalQuote(bonds, fn)

MarketSpec == MarketInit /\ [][MarketNext]_vars

\* the Markets priced by YieldsSpacev2_Pricing_model_MinFee alone
MinFeeInit == MarketInit /\ market.pricing_model = "YieldsSpacev2_MinFee"

MinFeeSpec == MinFeeInit /\ [][MarketNext]_vars

\* the trade sizes of the profit check, in bonds
FuzzBonds == {ONE \div 4, ONE \div 2, ONE, 2 * ONE}

\* fuzz_profit_check on a freshly deployed pool (no share adjustment), with and without a curve fee
FuzzInit ==
  /\ SolverInit
  /\ heap[IFACE].shareAdjustment = 0

FuzzNext ==
  \/ \E bonds \in FuzzBonds : OpenLong(bonds)
  \/ CloseLong
  \/ \E bonds \in FuzzBonds : OpenShort(bonds)
  \/ CloseShort
  \/ InvariantCheck

FuzzSpec == FuzzInit /\ [][FuzzNext]_vars

\* the solver and the Market of a run that uses neither
IdleSolver ==
  /\ market = NoMarket
  /\ last = NoSwap
  /\ iface_pool_config = CHOOSE cfg \in Configs : cfg.positionDuration = YEAR /\ cfg.curveFee = 0
  /\ heap = [o \in {IFACE} |-> CHOOSE info \in PoolInfos(iface_pool_config) : info.shareAdjustment = 0]
  /\ entry_info = heap[IFACE]
  /\ pc = "idle"
  /\ target_rate = 0
  /\ pool_info = IFACE
  /\ pool_config = iface_pool_config
  /\ iteration = 0
  /\ predicted_rate = 0
  /\ total_shares_needed = 0
  /\ total_bonds_needed = 0
  /\ bonds_needed = 0
  /\ prev_bonds_needed = 0
  /\ exit_by = "none"
  /\ prev_call = NoCall

\* two simulators, one generator that no one has seeded yet; the second simulator's pricing model varies
SimInit ==
  /\ \E second \in {"Element", "YieldSpace"} : sims = [i \in SimIds |-> NewSimulator(IF i = 1 THEN "Element" ELSE second)]
  /\ rng = [state |-> 11, seeded |-> -1]
  /\ calls = 0
  /\ fuzz = NoFuzz
  /\ calc = NoCalc
  /\ hyperdrive = NewInterface(0)
  /\ ExtInit
  /\ IdleSolver

SimNext ==
  \/ \E seed \in Seeds : Reseed(seed)
  \/ \E i \in SimIds : SetSimParams(i)
  \/ \E i \in SimIds : SetRandomTime(i)
  \/ \E i \in SimIds : RunSimulation(i)
  \/ \E i \in SimIds : Trade(i)
  \/ \E i \in SimIds : EndDay(i)

SimSpec == SimInit /\ [][SimNext]_vars

\* the inputs of the static methods: liquidity of 10 or 20 at a price of 1 or 2,
\* an APY of 5% or 20%, terms of one and two years stretched to t = 1 or 1/2
LiquidityInputs ==
  { << pm, tl * ONE, mp * ONE, a * ONE, d[1] * ONE, d[2] * ONE, c, ONE >> :
      pm \in {"Element_Pricing_Model", "YieldsSpacev2", "YieldsSpacev2_MinFee"}, tl \in {10, 20}, mp \in {1, 2}, a \in {5, 20},
      d \in {<< 365, 1 >>, << 365, 2 >>, << 730, 4 >>}, c \in {ONE, ONE + ONE \div 50} }

LpAmounts == {0, ONE \div 2, ONE, 3 * ONE}

CalcInit ==
  /\ calc = NoCalc
  /\ hyperdrive = NewInterface(0)
  /\ ExtInit
  /\ fuzz = NoFuzz
  /\ sims = [i \in SimIds |-> NewSimulator("Element")]
  /\ rng = [state |-> 0, seeded |-> -1]
  /\ calls = 0
  /\ IdleSolver

CalcNext ==
  \/ \E i \in LiquidityInputs : CalcLiquidity(i[1], i[2], i[3], i[4], i[5], i[6], i[7], i[8])
  \/ \E fn \in {"calc_tokens_in_given_lp_out", "calc_lp_out_given_tokens_in", "calc_lp_in_given_tokens_out", "calc_tokens_out_for_lp_in"} :
       \E a \in LpAmounts \ {0}, b \in LpAmounts, x_reserves \in {ONE, 3 * ONE}, y_reserves \in {2 * ONE, 3 * ONE}, supplied \in BOOLEAN :
         LpCall(fn, a, b, x_reserves, y_reserves, IF supplied THEN x_reserves + y_reserves ELSE 0)

CalcSpec == CalcInit /\ [][CalcNext]_vars

\* an interface built on a chain whose first block is at time 0 or well into a
\* checkpoint
InterfaceInit ==
  /\ \E block_time \in {0, 2 * CheckpointDuration + 3} : hyperdrive = NewInterface(block_time)
  /\ ExtInit
  /\ calc = NoCalc
  /\ fuzz = NoFuzz
  /\ sims = [i \in SimIds |-> NewSimulator("Element")]
  /\ rng = [state |-> 0, seeded |-> -1]
  /\ calls = 0
  /\ IdleSolver

InterfaceNext ==
  \/ \E seconds \in {1, 2, CheckpointDuration + 1} : MineBlock(seconds)
  \/ CheckpointBotPoll
  \/ \E pool_state \in {None} \cup hyperdrive.snapshots : calc_position_duration_in_years(pool_state)
  \/ \E fn \in PoolStateCalcs, pool_state \in {None} \cup hyperdrive.snapshots : calc_of_pool_state(fn, pool_state)
  \/ \E checkpoint_duration \in {None, [value |-> 3], [value |-> CheckpointDuration]}, block_timestamp \in {None, [value |-> 0], [value |-> 7], [value |-> 12]} :
       calc_checkpoint_id(checkpoint_duration, block_timestamp)

InterfaceSpec == InterfaceInit /\ [][InterfaceNext]_vars

\* scaled integers: zero, one unit, 1.0, and a value of 18 decimals' size
ScaledValues == {0, 1, ONE, 2000000000}

\* the structures the chain reader supplies
Structures(cls) ==
  IF cls = "PoolConfig"
    THEN { DataclassValue("PoolConfig",
             [key \in FieldsOf("PoolConfig") |->
                IF key \in FixedPointKeys THEN IntValue(a)
                ELSE IF key = Fees_ THEN DataclassValue("Fees", [k \in FieldsOf("Fees") |-> IntValue(IF k = << "c", "u", "r", "v", "e" >> THEN b ELSE c)])
                ELSE IntValue(7)]) : a \in ScaledValues, b \in ScaledValues, c \in ScaledValues }
    ELSE { DataclassValue(cls, [key \in FieldsOf(cls) |-> IntValue(f[key])]) : f \in [FieldsOf(cls) -> ScaledValues \ {1}] }

ConvInit ==
  /\ conv = [op |-> "none"]
  /\ agent = [op |-> "none"]
  /\ arb = [op |-> "none"]
  /\ hyperdrive = NewInterface(0)
  /\ calc = NoCalc
  /\ fuzz = NoFuzz
  /\ sims = [i \in SimIds |-> NewSimulator("Element")]
  /\ rng = [state |-> 0, seeded |-> -1]
  /\ calls = 0
  /\ IdleSolver

ConvNext == \E cls \in {"PoolInfo", "Checkpoint", "PoolConfig"} : \E obj \in Structures(cls) : ConvertAndBack(cls, obj)

ConvSpec == ConvInit /\ [][ConvNext]_vars

AgentInit ==
  /\ agent = NewAgent
  /\ conv = [op |-> "none"]
  /\ arb = [op |-> "none"]
  /\ hyperdrive = NewInterface(0)
  /\ calc = NoCalc
  /\ fuzz = NoFuzz
  /\ sims = [i \in SimIds |-> NewSimulator("Element")]
  /\ rng = [state |-> 0, seeded |-> -1]
  /\ calls = 0
  /\ IdleSolver

AgentNext ==
  \/ ExecutePolicyAction
  \/ GetTradeEvents

AgentSpec == AgentInit /\ [][AgentNext]_vars

\* one call of LPandArb.action on a pool of one share
ArbInit ==
  /\ SolverInit
  /\ heap[IFACE].shareReserves = ONE
  /\ iface_pool_config.positionDuration = YEAR

ArbNext ==
  \/ \E wallet \in Wallets, current_block_time \in {0, 2}, variable_rate \in TargetRates : ArbBegin(wallet, current_block_time, variable_rate, HALF, HALF)
  \/ ArbSolve
  \/ (ArbUnderWay /\ SolverStep)
  \/ ArbReturn

ArbSpec == ArbInit /\ [][ArbNext]_vars

Init == SolverInit

Next == SolverNext

Spec == Init /\ [][Next]_vars

(***************************************************************************)
(* Properties of calc_reserves_to_hit_target_rate                          *)
(***************************************************************************)

Running == pc \in {"test", "body"}

\* an iteration of the loop body that completed
Iterated == pc = "body" /\ pc' \in {"test", "done"}

\* what is left to do at most: two steps per remaining iteration
Measure == 2 * (MAX_ITER - iteration) + (IF pc = "test" THEN 1 ELSE 0)

\* the fixed rate of the pool obtained by applying the returned deltas to the
\* reserves the caller passed in, computed with the given share adjustment
RateAfterApplying(zeta) == calc_apr_local(entry_info.shareReserves + total_shares_needed, zeta, entry_info.bondReserves + total_bonds_needed, pool_config.initialSharePrice, pool_config.positionDuration, pool_config.timeStretch)

InRange(rate) == 50 <= rate /\ rate <= 5000

\* C1: the loop body runs at most MAX_ITER times, a loop test that finds
\* |predicted_rate - target_rate| <= TOLERANCE ends the call at once, and a running
\* call always has a next step that brings it strictly closer to its end
C1_Terminates ==
  /\ [](iteration <= MAX_ITER /\ (Running => iteration < MAX_ITER))
  /\ [][(pc = "test" /\ Abs(predicted_rate - target_rate) <= TOLERANCE) => (pc' = "done" /\ iteration' = iteration)]_vars
  /\ [][Running => (Measure' < Measure /\ Measure' >= 0 /\ iteration' <= iteration + 1)]_vars

\* C1 witness: a call that stopped early at a loop test after some iterations
C1_Witness == pc = "done" /\ exit_by = "test" /\ iteration > 1 /\ iteration < MAX_ITER

\* C2 as claimed: with target and starting fixed rate in [0.005, 0.5] (and no share
\* adjustment), the returned deltas put the pool's fixed rate within TOLERANCE of the target
C2_ConvergesInRange ==
  (pc = "done" /\ InRange(target_rate) /\ entry_info.shareAdjustment = 0
     /\ InRange(calc_apr_local(entry_info.shareReserves, 0, entry_info.bondReserves, pool_config.initialSharePrice, pool_config.positionDuration, pool_config.timeStretch)))
  => Abs(RateAfterApplying(0) - target_rate) <= TOLERANCE

\* the pair the call returns (line 398)
Ret == << total_shares_needed, total_bonds_needed >>

\* C3 as claimed: the result tells a converged call from an iteration-limited one,
\* so two calls that return the same result ended the same way
C3_StatusDistinguishes ==
  (pc = "done" /\ prev_call.exit_by # "none" /\ Ret = prev_call.ret) => (Converged = prev_call.converged)

\* C3 amended: a call that stops at MAX_ITER without convergence has raised nothing
\* and returns the bare pair of best-effort deltas, working reserves minus the
\* caller's reserves, with no status beside it
C3_BestEffortPair ==
  (pc = "done" /\ exit_by = "break") =>
     /\ iteration = MAX_ITER
     /\ Ret = << heap[pool_info].shareReserves - entry_info.shareReserves, heap[pool_info].bondReserves - entry_info.bondReserves >>
     /\ predicted_rate = calc_apr_local(entry_info.shareReserves + Ret[1], 0, entry_info.bondReserves + Ret[2], pool_config.initialSharePrice, pool_config.positionDuration, pool_config.timeStretch)

\* C3 witness: a call ended by the iteration limit, not converged, with deltas to return
C3_Witness == pc = "done" /\ exit_by = "break" /\ ~Converged /\ Ret[1] # 0 /\ Ret[2] # 0

\* C4 as claimed: an iteration takes bonds_needed out of the working bond reserves
C4_PositiveBondsLeavePool ==
  [][Iterated => heap'[pool_info].bondReserves = heap[pool_info].bondReserves - bonds_needed']_vars

\* C4 amended: an iteration adds bonds_needed to the working bond reserves (positive,
\* the short case, bonds enter the pool and shares leave it; negative, the long case,
\* bonds leave the pool), also when bonds_needed changes sign between iterations
C4_PositiveBondsEnterPool ==
  [][Iterated => heap'[pool_info].bondReserves = heap[pool_info].bondReserves + bonds_needed']_vars

\* C4 witness: a short iteration followed by a long one
C4_Witness == pc \in {"test", "done"} /\ iteration >= 2 /\ prev_bonds_needed > 0 /\ bonds_needed < 0 /\ total_bonds_needed > 0

\* C5: while a call runs, no step changes interface.pool_info or interface.pool_config
C5_CallerStateUnchanged ==
  [][(Running \/ Running') => (heap'[IFACE] = heap[IFACE] /\ iface_pool_config' = iface_pool_config)]_vars

\* C5 witness: a second run of iterations has moved the working copy away from the
\* caller's pool_info, which still is what it was at entry
C5_Witness == pc = "done" /\ iteration >= 2 /\ heap[pool_info] # heap[IFACE] /\ heap[IFACE] = entry_info /\ pool_info # IFACE

(***************************************************************************)
(* Properties of the Market and of the pricing models                      *)
(***************************************************************************)

\* the latest step was a swap that changed the Market
AppliedSwap == last.op = "swap" /\ last.applied

\* the latest step was a swap whose pricing call returned real numbers, made on
\* positive reserves
QuotedSwap == last.op = "swap" /\ last.quote.status = "real" /\ last.before.x > 0 /\ last.before.y > 0

\* C6 as claimed: after every applied swap the Market's x and y are not negative
C6_ReservesNeverNegative == AppliedSwap => (market.x >= 0 /\ market.y >= 0)

\* C7 as claimed: on positive reserves calc_out_given_in returns with_fee <= without_fee,
\* calc_in_given_out returns with_fee >= without_fee, and the fee is never negative
C7_FeeNeverNegative ==
  QuotedSwap =>
     /\ last.quote.fee >= 0
     /\ (last.direction = "out" => last.quote.with_fee <= last.quote.without_fee)
     /\ (last.direction = "in" => last.quote.with_fee >= last.quote.without_fee)

\* in_*5/100/100
FeeFloor(in_) == FDiv(FDiv(FMul(in_, 5 * ONE), 100 * ONE), 100 * ONE)

\* the fee and with_fee of a returned tuple are the floored fee of the call
\* calc_out_given_in(in_, ..., token_out, g, ...)
FlooredFee(q, in_, token_out, g) ==
  /\ q.fee = Max(FeeOut(in_, q.without_fee, token_out, g), FeeFloor(in_))
  /\ q.with_fee = q.without_fee - q.fee

\* C8: every call of YieldsSpacev2_Pricing_model_MinFee.calc_out_given_in that returns
\* (from swap with the Market's fee rate, or with fee rate zero), for either token_out,
\* returns as fee the larger of (in_ - without_fee)*g resp. (without_fee - in_)*g and
\* in_*5/100/100, and with_fee = without_fee - that fee
C8_MinFeeFloor ==
  /\ (last.op = "swap" /\ last.direction = "out" /\ last.before.pricing_model = "YieldsSpacev2_MinFee" /\ last.quote.status = "real")
       => FlooredFee(last.quote, last.amount, last.token_out, last.before.g)
  /\ (last.op = "round_trip" /\ last.before.pricing_model = "YieldsSpacev2_MinFee" /\ last.forward.status = "real")
       => FlooredFee(last.forward, last.amount, last.token_out, 0)

\* C8 witness: a swap on a MinFee Market with a fee rate whose organic fee, not zero,
\* is under the floor and is replaced by it
C8_Witness ==
  /\ last.op = "swap" /\ last.direction = "out" /\ last.before.pricing_model = "YieldsSpacev2_MinFee" /\ last.quote.status = "real"
  /\ last.before.g > 0 /\ last.before.x > 0 /\ last.before.y > 0
  /\ FeeOut(last.amount, last.quote.without_fee, last.token_out, last.before.g) # 0
  /\ FeeOut(last.amount, last.quote.without_fee, last.token_out, last.before.g) < FeeFloor(last.amount)
  /\ last.quote.fee = FeeFloor(last.amount)
  /\ last.quote.fee > 0

\* C9 as claimed: with positive reserves and a positive time exponent the Market's spot
\* price is in (0, 1], also after applied swaps
C9_SpotPriceBound ==
  (market.x > 0 /\ market.y > 0 /\ market.t > 0 /\ spot_price_ok(market)) => (0 < spot_price(market) /\ spot_price(market) <= ONE)

\* C10 as claimed: with fee rate zero, calc_in_given_out of the without-fee output of
\* calc_out_given_in(amount_in) on the same reserves is amount_in; a relative error of
\* 1e-12 of an amount is less than one unit of the arithmetic, so the two are equal
C10_RoundTripExact ==
  (last.op = "round_trip" /\ last.back.status = "real" /\ last.before.x > 0 /\ last.before.y > 0) => last.back.without_fee = last.amount

(***************************************************************************)
(* Properties of the profit check                                          *)
(***************************************************************************)

C12_NoRunBeforeParams ==
  \A i \in SimIds :
    ~sims[i].sim_params_set =>
      /\ ~sims[i].has_market
      /\ sims[i].analysis_dict = << >>
      /\ sims[i].pc = "idle"
      /\ sims[i].runs = 0
      /\ sims[i].raised \in {"none", "AssertionError"}

C12_Witness ==
  \E i \in SimIds :
    /\ ~sims[i].sim_params_set
    /\ sims[i].raised = "AssertionError"
    /\ ~sims[i].has_market
    /\ sims[i].analysis_dict = << >>

\* a sequence begins with another
IsPrefix(short, long) == Len(short) <= Len(long) /\ SubSeq(long, 1, Len(short)) = short

\* C13 as claimed: after a completed run, with no set_sim_params since, no
\* run_simulation is under way on the instance and its analysis_dict holds the
\* rows of the completed run and no more
C13_RerunNeedsParams ==
  \A i \in SimIds :
    (sims[i].runs >= 1 /\ ~sims[i].params_since_run) =>
      /\ sims[i].pc = "idle"
      /\ sims[i].analysis_dict = sims[i].done_rows

\* C13 as amended: once a run has completed, sim_params_set is still set, so a
\* further run_simulation passes the assertion with no set_sim_params in between,
\* and what it appends comes after the rows of the completed run, which stay
C13_RerunAppends ==
  \A i \in SimIds :
    sims[i].runs >= 1 =>
      /\ sims[i].sim_params_set
      /\ IsPrefix(sims[i].done_rows, sims[i].analysis_dict)
      /\ sims[i].done_rows # << >>

C13_Witness ==
  \E i \in SimIds :
    /\ sims[i].runs >= 1
    /\ ~sims[i].params_since_run
    /\ sims[i].pc = "trading"
    /\ Len(sims[i].analysis_dict) > Len(sims[i].done_rows)

\* a first run of a fresh instance that came to its end: np.random.seed(seed),
\* set_sim_params, run_simulation, with no draw by anyone else in between
SeededRun(i, seed) ==
  /\ sims[i].runs = 1
  /\ sims[i].pc = "idle"
  /\ sims[i].raised = "none"
  /\ sims[i].run_seed = seed

Close(a, b) == Abs(a - b) * 500 <= Max(Abs(a), Abs(b))

C16_ReservesHitApy ==
  (calc.op = "calc_liquidity" /\ calc.actual_apy # -1) => Close(calc.actual_apy, calc.apy)

\* C17: on an initialised pool calc_lp_out_given_tokens_in asks for no more of
\* either token than was supplied; when (x_reserves/y_reserves)*y_in exceeds x_in
\* it takes x_needed = x_in, y_needed = x_in*y_reserves/x_reserves and mints
\* x_in*total_supply/x_reserves, less than the mint for the whole of y_in, and
\* otherwise it takes y_needed = y_in
C17_LpOutWithinSupplied ==
  (calc.op = "calc_lp_out_given_tokens_in" /\ calc.total_supply > 0 /\ ~calc.ret.raised) =>
    /\ calc.ret.x_needed <= calc.a
    /\ calc.ret.y_needed <= calc.b
    /\ IF FMul(FDiv(calc.x_reserves, calc.y_reserves), calc.b) > calc.a
         THEN /\ calc.ret.x_needed = calc.a
              /\ Close(calc.ret.y_needed, FDiv(FMul(calc.a, calc.y_reserves), calc.x_reserves))
              /\ calc.ret.lp = FDiv(FMul(calc.a, calc.total_supply), calc.x_reserves)
              /\ calc.ret.lp < FDiv(FMul(FMul(FDiv(calc.x_reserves, calc.y_reserves), calc.b), calc.total_supply), calc.x_reserves)
         ELSE calc.ret.y_needed = calc.b

C17_Witness ==
  /\ calc.op = "calc_lp_out_given_tokens_in"
  /\ calc.total_supply > 0
  /\ ~calc.ret.raised
  /\ calc.ret.x_needed = calc.a
  /\ calc.ret.y_needed < calc.b
  /\ calc.ret.y_needed > 0

\* C18: with total_supply > 0 each of the four liquidity-provider functions
\* returns amounts in the ratio of the reserves, x_needed*y_reserves =
\* y_needed*x_reserves; with total_supply = 0 the two deposit functions return
\* the deposit as x_needed and y_needed = 0
C18_LpAmountsInRatio ==
  (calc.op \in {"calc_tokens_in_given_lp_out", "calc_lp_out_given_tokens_in", "calc_lp_in_given_tokens_out", "calc_tokens_out_for_lp_in"} /\ ~calc.ret.raised) =>
    /\ calc.total_supply > 0 => Close(FMul(calc.ret.x_needed, calc.y_reserves), FMul(calc.ret.y_needed, calc.x_reserves))
    /\ (calc.total_supply = 0 /\ calc.op \in {"calc_tokens_in_given_lp_out", "calc_lp_out_given_tokens_in"}) =>
         (calc.ret.x_needed = calc.a /\ calc.ret.y_needed = 0)

C18_Witness ==
  /\ calc.op = "calc_tokens_out_for_lp_in"
  /\ ~calc.ret.raised
  /\ calc.total_supply > 0
  /\ calc.x_reserves # calc.y_reserves
  /\ calc.ret.x_needed > 0
  /\ calc.ret.y_needed > calc.ret.x_needed

(***************************************************************************)
(* Properties of the checkpoint ids and of the interface                   *)
(***************************************************************************)

\* id is the checkpoint id of a timestamp under a checkpoint duration
IsCheckpointIdOf(id, timestamp, checkpoint_duration) ==
  /\ id = timestamp - (timestamp % checkpoint_duration)
  /\ id = (timestamp \div checkpoint_duration) * checkpoint_duration
  /\ \E k \in 0..timestamp : id = k * checkpoint_duration
  /\ id <= timestamp
  /\ timestamp < id + checkpoint_duration

\* C19: the checkpoint id of a timestamp >= 0 under a checkpoint_duration > 0 is
\* timestamp - (timestamp mod checkpoint_duration) = floor(timestamp /
\* checkpoint_duration) * checkpoint_duration, a multiple of the duration with
\* id <= timestamp < id + checkpoint_duration, and the checkpoint id of a
\* checkpoint id is that id
C19_CheckpointIdFloors ==
  /\ hyperdrive.bot.polled # -1 =>
       /\ IsCheckpointIdOf(hyperdrive.bot.checkpoint_time, hyperdrive.bot.timestamp, hyperdrive.bot.checkpoint_duration)
       /\ checkpoint_time(hyperdrive.bot.checkpoint_time, hyperdrive.bot.checkpoint_duration) = hyperdrive.bot.checkpoint_time
  /\ hyperdrive.call.fn = "calc_checkpoint_id" =>
       /\ IsCheckpointIdOf(hyperdrive.call.ret, hyperdrive.call.block_timestamp, hyperdrive.call.checkpoint_duration)
       /\ calc_checkpoint_id_(hyperdrive.call.checkpoint_duration, hyperdrive.call.ret) = hyperdrive.call.ret

C19_Witness ==
  /\ hyperdrive.bot.polled # -1
  /\ hyperdrive.bot.checkpoint_time > 0
  /\ hyperdrive.bot.checkpoint_time < hyperdrive.bot.timestamp
  /\ hyperdrive.call.fn = "calc_checkpoint_id"
  /\ hyperdrive.call.ret > 0
  /\ hyperdrive.call.ret < hyperdrive.call.block_timestamp

\* C20: a calc_* method that is given a pool_state computes its result from that
\* pool_state only, and neither reads nor refreshes the current pool state
C20_CalcPureOfSnapshot ==
  (hyperdrive.call.fn \in PoolStateCalcs \cup {"calc_position_duration_in_years"} /\ hyperdrive.call.pool_state # None) =>
    /\ hyperdrive.call.ret = MockContractCalc(hyperdrive.call.fn, hyperdrive.call.pool_state)
    /\ ~hyperdrive.call.read_current
    /\ ~hyperdrive.call.refreshed

(***************************************************************************)
(* Properties of the conversions                                           *)
(***************************************************************************)

\* C21: converting a PoolInfo, a Checkpoint or a PoolConfig to its FixedPoint
\* mirror and back succeeds and returns a structure with the same camelCase
\* field names and the same scaled integers, fees included
C21_RoundTripLossless ==
  conv.op = "round trip" => (conv.back.raised = "none" /\ conv.back.value = conv.obj)

C24_IterationDeltas ==
  [][/\ (pc = "body" /\ pc' \in {"test", "done"}) =>
          LET old == heap[pool_info]
              new == heap'[pool_info]
              cfg == pool_config
              target_bonds == calc_bond_reserves(old.shareReserves, old.shareAdjustment, cfg.initialSharePrice, target_rate, cfg.positionDuration, cfg.invTimeStretch)
              d_bonds == new.bondReserves - old.bondReserves
              d_shares == new.shareReserves - old.shareReserves
              out == get_shares_out_for_bonds_in(old.bondReserves, old.sharePrice, cfg.initialSharePrice, old.shareReserves, d_bonds, cfg.timeStretch, cfg.curveFee, cfg.governanceFee)
              in_ == get_shares_in_for_bonds_out(old.bondReserves, old.sharePrice, cfg.initialSharePrice, old.shareReserves, -d_bonds, cfg.timeStretch, cfg.curveFee, cfg.governanceFee)
          IN  /\ Abs(2 * d_bonds - (target_bonds - old.bondReserves)) <= 1
              /\ d_shares = IF d_bonds > 0 THEN -(out[1] + out[3]) ELSE in_[1] - in_[3]
              /\ total_shares_needed' = new.shareReserves - entry_info.shareReserves
              /\ total_bonds_needed' = new.bondReserves - entry_info.bondReserves
     /\ (pc = "test" /\ pc' = "done" /\ iteration = 0) => (total_shares_needed' = 0 /\ total_bonds_needed' = 0)]_vars

\* C24 witness: a call has returned after a short iteration and a long one, with
\* totals that are not zero
C24_Witness ==
  /\ pc = "done"
  /\ iteration >= 2
  /\ prev_bonds_needed * bonds_needed < 0
  /\ total_shares_needed = heap[pool_info].shareReserves - entry_info.shareReserves
  /\ total_shares_needed # 0
  /\ total_bonds_needed # 0

\* C25: the predicted rate is computed from the same effective share reserves
\* z - zeta that calc_bond_reserves uses for target_bonds: for any share
\* adjustment, a working pool whose bondReserves equal target_bonds has
\* predicted_rate equal to target_rate (to TOLERANCE, one unit of the model)
C25_TargetBondsHitTargetRate ==
  (/\ pc \in {"test", "done"}
   /\ iteration >= 1
   /\ heap[pool_info].bondReserves = TargetBonds(heap[pool_info], pool_config, target_rate))
    => Abs(predicted_rate - target_rate) <= TOLERANCE

(***************************************************************************)
(* Properties of the simulator's days                                      *)
(***************************************************************************)

\* the time until the end a run's Market starts with
InitialT(sim) == StretchedTime(SimKwargs.days_until_maturity, sim.t_stretch)

\* what a day adds to the conversion rate
DailyYield(sim) == FMul(FDiv(FDiv(sim.params.vault_apy, 100 * ONE), 365 * ONE), sim.market.u)

\* C26: each day of run_simulation accrues yield into c, then swaps until the
\* day's volume reaches target_daily_volume, then ticks once: the Market's t is
\* constant across the swaps of a day and after k completed days is its initial
\* value minus k*step_size, and every swap call appends one row to analysis_dict
C26_DayOrder ==
  [][\A i \in SimIds :
       LET a == sims[i]
           b == sims'[i]
       IN  (a.pc = "trading" /\ b # a) =>
             /\ a.market.t = InitialT(a) - a.day * SimKwargs.step_size
             /\ IF a.day_trading_volume < a.params.target_daily_volume
                  THEN \* a swap
                       \/ b.pc = "idle" /\ b.raised # "none"
                       \/ /\ b.pc = "trading"
                          /\ b.day = a.day
                          /\ b.market.t = a.market.t
                          /\ b.market.c = a.market.c
                          /\ Len(b.trades) = Len(a.trades) + 1
                          /\ Len(b.analysis_dict) = Len(a.analysis_dict) + 1
                          /\ b.analysis_dict[Len(b.analysis_dict)].day = a.day
                          /\ b.analysis_dict[Len(b.analysis_dict)].time_until_end = a.market.t
                  ELSE \* the end of the day
                       /\ b.market.t = a.market.t - SimKwargs.step_size
                       /\ b.analysis_dict = a.analysis_dict
                       /\ b.trades = a.trades
                       /\ IF a.day + 1 < SimKwargs.num_trading_days
                            THEN b.pc = "trading" /\ b.day = a.day + 1 /\ b.day_trading_volume = 0 /\ b.market.c = a.market.c + DailyYield(a)
                            ELSE b.pc = "idle" /\ b.market.c = a.market.c /\ b.market.t = InitialT(a) - SimKwargs.num_trading_days * SimKwargs.step_size]_vars

\* C26 witness: a run has come to its end after two days of several swaps each, with
\* a yield that moved c
C26_Witness ==
  \E i \in SimIds :
    /\ sims[i].pc = "idle"
    /\ sims[i].runs = 1
    /\ sims[i].raised = "none"
    /\ \E k \in 2..Len(sims[i].analysis_dict) : sims[i].analysis_dict[k].day = 1 /\ sims[i].analysis_dict[k - 1].day = 1
    /\ sims[i].analysis_dict[2].day = 0
    /\ sims[i].market.t = InitialT(sims[i]) - 2 * SimKwargs.step_size
    /\ sims[i].market.c > sims[i].analysis_dict[1].conversion_rate

(***************************************************************************)
(* Properties of the fee test of Market.swap                               *)
(***************************************************************************)

\* C27: a swap that returns changes the Market only when the quoted fee is strictly
\* positive: with fee <= 0 the reserves, the order counters, the volumes and the
\* cumulative slippage and fee fields are what they were and the quote is still
\* returned; with fee > 0 exactly one order counter goes up by one and x and y move
\* in opposite directions
C27_OnlyPositiveFeeApplies ==
  (last.op = "swap" /\ ~last.raised) =>
    IF last.quote.fee <= 0
      THEN market = last.before /\ last.quote.status = "real"
      ELSE /\ << market.x_orders - last.before.x_orders, market.y_orders - last.before.y_orders >> \in {<< 1, 0 >>, << 0, 1 >>}
           /\ (market.x - last.before.x) * (market.y - last.before.y) < 0

(***************************************************************************)
(* Properties of LPandArb.action                                           *)
(***************************************************************************)

RECURSIVE SumClosed(_, _, _, _)
\* the trade_amounts of a list's actions of one type and maturity, from item i on
SumClosed(action_list, action_type, maturity_time, i) ==
  IF i > Len(action_list) THEN 0
  ELSE (IF action_list[i].action_type = action_type /\ action_list[i].maturity_time = maturity_time THEN action_list[i].trade_amount ELSE 0)
         + SumClosed(action_list, action_type, maturity_time, i + 1)

\* C28: every closing trade of a returned list can be executed against the wallet:
\* for each maturity the CLOSE_SHORT amounts sum to at most the wallet's short
\* balance at that maturity, likewise CLOSE_LONG against the long balance, and no
\* returned action has a trade_amount <= 0
C28_ClosesWithinWallet ==
  arb.op = "returned" =>
    /\ \A i \in 1..Len(arb.wallet.shorts) : SumClosed(arb.action_list, "CLOSE_SHORT", arb.wallet.shorts[i][1], 1) <= arb.wallet.shorts[i][2]
    /\ \A i \in 1..Len(arb.wallet.longs) : SumClosed(arb.action_list, "CLOSE_LONG", arb.wallet.longs[i][1], 1) <= arb.wallet.longs[i][2]
    /\ \A i \in 1..Len(arb.action_list) : arb.action_list[i].trade_amount > 0

(***************************************************************************)
(* Properties of the cached pool state and of the checkpoint bot           *)
(***************************************************************************)

\* the step mined no block and was no turn of the bot: it was a call, one that read
\* current_pool_state
AccessStep ==
  /\ hyperdrive'.block_number = hyperdrive.block_number
  /\ hyperdrive'.bot.polled = hyperdrive.bot.polled
  /\ hyperdrive'.call.fn # "none"
  /\ hyperdrive'.call.read_current

\* C29: each access of current_pool_state refetches the state exactly when the
\* latest block number is greater than last_state_block_number; over any
\* sequence of blocks and accesses last_state_block_number never decreases, is
\* always the block number of the cached PoolState, and after an access is the
\* latest block number that access read
C29_CacheSynced ==
  [][/\ hyperdrive.last_state_block_number = hyperdrive.current_pool_state_.block_number
     /\ hyperdrive'.last_state_block_number >= hyperdrive.last_state_block_number
     /\ hyperdrive'.last_state_block_number = hyperdrive'.current_pool_state_.block_number
     /\ IF AccessStep
          THEN /\ hyperdrive'.call.refreshed <=> (hyperdrive.block_number > hyperdrive.last_state_block_number)
               /\ hyperdrive'.last_state_block_number = hyperdrive.block_number
               /\ hyperdrive'.current_pool_state_ = IF hyperdrive.block_number > hyperdrive.last_state_block_number
                                                      THEN get_hyperdrive_state(hyperdrive.block_number, hyperdrive.block_time)
                                                      ELSE hyperdrive.current_pool_state_
          ELSE hyperdrive'.current_pool_state_ = hyperdrive.current_pool_state_]_vars

\* C29 witness: two blocks were mined before an access, which refetched the state of
\* the second
C29_Witness ==
  /\ hyperdrive.call.fn # "none"
  /\ hyperdrive.call.read_current
  /\ hyperdrive.call.refreshed
  /\ hyperdrive.block_number = 2
  /\ hyperdrive.last_state_block_number = 2
  /\ hyperdrive.current_pool_state_.block_number = 2
  /\ Cardinality(hyperdrive.snapshots) = 2

\* C30: in every polling round the checkpoint bot submits a checkpoint only if at
\* least half of the current checkpoint interval has elapsed and no checkpoint
\* exists yet for checkpoint_time = timestamp - timestamp mod checkpoint_duration,
\* and it submits for exactly that checkpoint_time; the sleep that follows is
\* strictly positive and ends at the half-way point of the current interval (if
\* less than half had elapsed) or of the next one (otherwise); the bot submits at
\* most one checkpoint per interval (sleep_duration is counted in half seconds)
C30_BotRound ==
  [][IF hyperdrive'.bot.polled # hyperdrive.bot.polled
       THEN LET bot == hyperdrive'.bot
                d == bot.checkpoint_duration
                elapsed == bot.timestamp % d
                id == bot.timestamp - elapsed
            IN  /\ bot.timestamp = hyperdrive.block_time
                /\ bot.submitted => (2 * elapsed >= d /\ id \notin hyperdrive.checkpoints)
                /\ hyperdrive'.checkpoints = IF bot.submitted THEN hyperdrive.checkpoints \cup {id} ELSE hyperdrive.checkpoints
                /\ bot.sleep_duration > 0
                /\ 2 * bot.timestamp + bot.sleep_duration = IF 2 * elapsed < d THEN 2 * id + d ELSE 2 * (id + d) + d
       ELSE hyperdrive'.checkpoints = hyperdrive.checkpoints]_vars

\* C30 witness: the bot comes round again in an interval whose checkpoint it has
\* submitted, past the half of it, and submits nothing
C30_Witness ==
  /\ hyperdrive.bot.polled >= 1
  /\ ~hyperdrive.bot.submitted
  /\ 2 * hyperdrive.bot.checkpoint_portion_elapsed >= hyperdrive.bot.checkpoint_duration
  /\ hyperdrive.bot.checkpoint_time \in hyperdrive.checkpoints
  /\ hyperdrive.bot.sleep_duration > 0

====
